---- MODULE Spec2Model ----
(***************************************************************************)
(* A model of the Raytracer scene kernel: the shape arena (ShapeList) and  *)
(* the shape constructors and mutators that write to it, the CSG           *)
(* intersection filter, hit selection and World::intersects.               *)
(*                                                                         *)
(* Rust indexes the arena from 0 and TLA+ sequences from 1: slot i of the  *)
(* arena is shapes[i + 1].  Option<i32> is the empty set (None) or a       *)
(* singleton (Some).  Matrices and materials are small integer tags: 0 is  *)
(* Matrix4::identity() / Material::new().                                  *)
(***************************************************************************)
EXTENDS Integers, Sequences, FiniteSets, TLC

VARIABLES
    shapes,     \* ShapeList.shapes: the arena
    locals,     \* the shape values the caller holds (what the constructors returned)
    minted,     \* ghost: the id carried by each record at the time it was pushed
    calls,      \* ghost: the number of calls made so far
    last,       \* ghost: the operation that ran last and its arguments
    panicked,   \* TRUE once an index-out-of-bounds panic aborted the program
    csg,        \* CSG::filter_intersects: the call's input and result
    hitv,       \* intersection::hit: the call's input and result
    world,      \* World: the objects' intersections for the ray and the last query
    trace,      \* World::color_at: the stack of colour lookups in progress
    comps,      \* intersection::prepare_computations: the call's input and result
    light,      \* Light::lighting: the call's input and result
    render,     \* the arena before a rendering call, and the call's result
    camera,     \* Camera::render: the loop position and the canvas
    parser      \* obj_loader::Parser: the line being parsed and the Parser's fields

\* the variables of shading and rendering, and of the OBJ parser
pipelineVars == <<trace, comps, light, render, camera>>
parseVars == <<parser>>

vars == <<shapes, locals, minted, calls, last, panicked, csg, hitv, world,
          trace, comps, light, render, camera, parser>>

----------------------------------------------------------------------------
(* Bounds of the model *)

\* a scene construction makes at most this many calls
MaxCalls == 4
\* the caller holds at most this many shapes
MaxLocals == 3
\* an intersection list handed to filter_intersects or hit has at most this many records
MaxXs == 4
\* the t values of intersections are at most MaxT
MaxT == 2
\* one world object returns at most this many intersections for a ray
MaxPerObject == 2

----------------------------------------------------------------------------
(* Values *)

None == {}
Some(x) == {x}

Identity == 0
\* the translation * scaling product of Cube::transform_to_fit_points
FitTransform == 2
\* the transforms a caller passes to set_transform
UserTransforms == {1}

DefaultMaterial == 0
\* the materials a caller passes to set_material
UserMaterials == {1}

LeafKinds == {"sphere", "plane", "cube", "cylinder", "cone", "triangle", "test_shape"}
Operations == {"union", "intersection", "difference"}

\* i32 -> usize conversion of `id as usize`: a negative id wraps to a huge index.
\* UsizeWrap stands for 2^64, beyond every arena length.
UsizeWrap == 1073741824
AsUsize(i) == IF i < 0 THEN UsizeWrap + i ELSE i

\* a record of a shape without children, bounding box or CSG operands
Leaf(id, kind) ==
    [id |-> id, shape_type |-> kind, parent_id |-> None, transform |-> Identity,
     material |-> DefaultMaterial, children_ids |-> << >>, bounding_box |-> << >>,
     left_id |-> None, right_id |-> None, operation |-> None]

----------------------------------------------------------------------------
(* ShapeList *)

get_id(list) == Len(list)

push(list, val) == Append(list, val)

get(list, id) == list[AsUsize(id) + 1]

\* shapes[val.id() as usize] panics when the index is out of bounds, before
\* anything is written
update_mutant_append(list, val) ==
    IF AsUsize(val.id) < Len(list)
    THEN [shapes |-> [list EXCEPT ![AsUsize(val.id) + 1] = val], panicked |-> FALSE]
    ELSE [shapes |-> Append(list, val), panicked |-> TRUE]

update_checked(list, val) ==
    IF AsUsize(val.id) < Len(list)
    THEN [shapes |-> [list EXCEPT ![AsUsize(val.id) + 1] = val], panicked |-> FALSE]
    ELSE [shapes |-> list, panicked |-> TRUE]

update(list, val) == update_checked(list, val).shapes

----------------------------------------------------------------------------
(* Constructors.  Each returns [shape |-> the caller's value, shapes |-> the arena] *)

\* Sphere::new, Plane::new, Cube::new, Cylinder::new, Cone::new, Triangle::new,
\* TestShape::new: mint the id, push a clone, return the shape
Shape_new(kind, list) ==
    LET id == get_id(list)
        shape == Leaf(id, kind)
    IN [shape |-> shape, shapes |-> push(list, shape)]

Cube_new(list) == Shape_new("cube", list)

\* every leaf shape's set_transform: assign, then update
Shape_set_transform(shape, transform, list) ==
    LET s == [shape EXCEPT !.transform = transform]
    IN [shape |-> s, shapes |-> update(list, s)]

Cube_new_including_points(list) ==
    LET id == get_id(list)
        shape == Leaf(id, "cube")
        pushed == push(list, shape)
    IN Shape_set_transform(shape, FitTransform, pushed)

\* Bounds::new registers a Cube of its own
Bounds_new(list) ==
    LET c == Cube_new(list)
    IN [bounds |-> [cube |-> c.shape], shapes |-> c.shapes]

Bounds_new_with_bounds(list) ==
    LET c == Cube_new_including_points(list)
    IN [bounds |-> [cube |-> c.shape], shapes |-> c.shapes]

\* Group::new: the id is read before Bounds::new pushes the bounding cube, so
\* the cube is minted the same id and takes the slot of that id
Group_new(list) ==
    LET id == get_id(list)
        b == Bounds_new(list)
        shape == [Leaf(id, "group") EXCEPT !.bounding_box = <<b.bounds>>]
    IN [shape |-> shape, shapes |-> push(b.shapes, shape)]

\* set_parent of every shape kind: assign, then update
Shape_set_parent(shape, parent_id, list) ==
    LET s == [shape EXCEPT !.parent_id = Some(parent_id)]
    IN [shape |-> s, shapes |-> update(list, s)]

Shape_set_material(shape, material, list) ==
    LET s == [shape EXCEPT !.material = material]
    IN [shape |-> s, shapes |-> update(list, s)]

\* Group::set_transform also sets the transform of the bounding cube, which
\* updates the arena slot of the cube's id
Group_set_transform(shape, transform, list) ==
    LET s == [shape EXCEPT !.transform = transform]
        l1 == update(list, s)
        c == Shape_set_transform(s.bounding_box[1].cube, transform, l1)
    IN [shape |-> [s EXCEPT !.bounding_box = <<[cube |-> c.shape]>>],
        shapes |-> c.shapes]

CSG_new_with_operation_mutant_left_only(operation, left_id, right_id, list) ==
    LET id == get_id(list)
        l1 == Shape_set_parent(get(list, left_id), id, list).shapes
        shape == [Leaf(id, "csg") EXCEPT !.left_id = Some(left_id),
                                         !.right_id = Some(right_id),
                                         !.operation = Some(operation)]
    IN [shape |-> shape, shapes |-> push(l1, shape)]

CSG_new_with_operation(operation, left_id, right_id, list) ==
    LET id == get_id(list)
        l1 == Shape_set_parent(get(list, left_id), id, list).shapes
        l2 == Shape_set_parent(get(l1, right_id), id, l1).shapes
        shape == [Leaf(id, "csg") EXCEPT !.left_id = Some(left_id),
                                         !.right_id = Some(right_id),
                                         !.operation = Some(operation)]
    IN [shape |-> shape, shapes |-> push(l2, shape)]

----------------------------------------------------------------------------
(* Bounds::bounds: every call registers a Cube; a group recurses into the    *)
(* arena copies of its children first.  Returns the arena and the Bounds.    *)

RECURSIVE Bounds_bounds(_, _)
RECURSIVE Bounds_children(_, _)

\* the loop over group.children_ids: only the arena is threaded through
Bounds_children(ids, list) ==
    IF ids = << >> THEN list
    ELSE LET child == get(list, Head(ids))
         IN Bounds_children(Tail(ids), Bounds_bounds(child, list).shapes)

Bounds_bounds(shape, list) ==
    IF shape.shape_type \in {"sphere", "cube", "plane", "cylinder", "cone", "triangle"}
    THEN Bounds_new_with_bounds(list)
    ELSE IF shape.shape_type = "group"
    THEN Bounds_new_with_bounds(Bounds_children(shape.children_ids, list))
    ELSE Bounds_new(list)

Group_add_child(group, child, list) ==
    LET c == Shape_set_parent(child, group.id, list)
        g1 == [group EXCEPT !.children_ids = Append(@, child.id)]
        l2 == update(c.shapes, g1)
        b == Bounds_bounds(g1, l2)
    IN [shape |-> [g1 EXCEPT !.bounding_box = <<b.bounds>>],
        child |-> c.shape, shapes |-> b.shapes]

----------------------------------------------------------------------------
(* includes: the test CSG::filter_intersects makes on its left operand *)

\* index of a value in a sequence, as Vec::contains scans
Contains(seq, x) == \E k \in 1..Len(seq) : seq[k] = x

includes(shape, id) ==
    IF shape.shape_type = "group" THEN Contains(shape.children_ids, id)
    ELSE IF shape.shape_type = "csg"
    THEN shape.left_id = Some(id) \/ shape.right_id = Some(id)
    ELSE shape.id = id

----------------------------------------------------------------------------
(* The scene graph as the arena records it *)

\* the ids a record names as its children
ChildIds(shape) ==
    IF shape.shape_type = "group" THEN {shape.children_ids[k] : k \in 1..Len(shape.children_ids)}
    ELSE IF shape.shape_type = "csg" THEN shape.left_id \cup shape.right_id
    ELSE {}

RECURSIVE Nested(_, _, _)
\* the ids nested beneath a record, to depth n
Nested(list, shape, n) ==
    IF n = 0 THEN {}
    ELSE LET direct == {i \in ChildIds(shape) : AsUsize(i) < Len(list)}
         IN direct \cup UNION {Nested(list, get(list, i), n - 1) : i \in direct}

\* the ids the caller holds
LocalIds == {locals[k].id : k \in 1..Len(locals)}

\* the ids of the records appended by a step, as they were pushed
Pushed(old, new) == [k \in 1..(Len(new) - Len(old)) |-> new[Len(old) + k].id]

----------------------------------------------------------------------------
(* Scene construction: the calls a caller makes on the shapes it holds *)

Idle == [op |-> "none", h |-> 0, arg |-> 0]
IdleCsg == [node |-> None, xs |-> << >>, called |-> FALSE, lhits |-> << >>, result |-> << >>]
IdleHit == [xs |-> << >>, called |-> FALSE, result |-> << >>]
IdleWorld == [objects |-> << >>, caller |-> "none", xs |-> << >>, hit_arg |-> << >>,
              hit |-> << >>, distance |-> 0, shadowed |-> FALSE]
IdleTrace == [pc |-> "idle"]
IdleComps == [called |-> FALSE]
IdleLight == [called |-> FALSE]
IdleRender == [called |-> FALSE]
IdleCamera == [pc |-> "idle"]
IdleParser == [pc |-> "idle"]

\* the parts of the state a specification does not exercise stay idle
PipelineIdle ==
    /\ trace = IdleTrace
    /\ comps = IdleComps
    /\ light = IdleLight
    /\ render = IdleRender
    /\ camera = IdleCamera

ParserIdle == parser = IdleParser

\* the program runs until it panics; the model follows it for MaxCalls calls
Running == ~panicked /\ calls < MaxCalls

Construct(r, op) ==
    /\ shapes' = r.shapes
    /\ locals' = Append(locals, r.shape)
    /\ minted' = minted \o Pushed(shapes, r.shapes)
    /\ calls' = calls + 1
    /\ last' = [op |-> op, h |-> Len(locals) + 1, arg |-> 0]
    /\ UNCHANGED <<pipelineVars, parseVars, panicked, csg, hitv, world>>

Mutate(h, r, op) ==
    /\ shapes' = r.shapes
    /\ locals' = [locals EXCEPT ![h] = r.shape]
    /\ minted' = minted \o Pushed(shapes, r.shapes)
    /\ calls' = calls + 1
    /\ last' = [op |-> op, h |-> h, arg |-> 0]
    /\ UNCHANGED <<pipelineVars, parseVars, panicked, csg, hitv, world>>

NewShape ==
    /\ Running
    /\ Len(locals) < MaxLocals
    /\ \E kind \in LeafKinds : Construct(Shape_new(kind, shapes), "new")

NewGroup ==
    /\ Running
    /\ Len(locals) < MaxLocals
    /\ Construct(Group_new(shapes), "new_group")

\* the callers pass the ids of shapes they hold (s1.id(), s2.id())
NewCSG ==
    /\ Running
    /\ Len(locals) < MaxLocals
    /\ \E operation \in Operations, left_id \in LocalIds, right_id \in LocalIds :
          Construct(CSG_new_with_operation(operation, left_id, right_id, shapes), "new_csg")

SetTransform ==
    /\ Running
    /\ \E h \in 1..Len(locals), transform \in UserTransforms :
          IF locals[h].shape_type = "group"
          THEN Mutate(h, Group_set_transform(locals[h], transform, shapes), "set_transform")
          ELSE Mutate(h, Shape_set_transform(locals[h], transform, shapes), "set_transform")

SetMaterial ==
    /\ Running
    /\ \E h \in 1..Len(locals), material \in UserMaterials :
          Mutate(h, Shape_set_material(locals[h], material, shapes), "set_material")

\* s.set_parent(g.id(), shape_list): the parent named is a group or a CSG
SetParent ==
    /\ Running
    /\ \E h \in 1..Len(locals), p \in 1..Len(locals) :
          /\ p # h
          /\ locals[p].shape_type \in {"group", "csg"}
          /\ Mutate(h, Shape_set_parent(locals[h], locals[p].id, shapes), "set_parent")

\* g.add_child(&mut c, shape_list) on a scene that stays a tree: the group is
\* not nested beneath the child
AddChild ==
    /\ Running
    /\ \E h \in 1..Len(locals), c \in 1..Len(locals) :
          /\ h # c
          /\ locals[h].shape_type = "group"
          /\ locals[h].id # locals[c].id
          /\ locals[h].id \notin Nested(update(shapes, locals[c]), locals[c], Len(shapes))
          /\ LET r == Group_add_child(locals[h], locals[c], shapes)
             IN /\ shapes' = r.shapes
                /\ locals' = [locals EXCEPT ![h] = r.shape, ![c] = r.child]
                /\ minted' = minted \o Pushed(shapes, r.shapes)
                /\ calls' = calls + 1
                /\ last' = [op |-> "add_child", h |-> h, arg |-> c]
                /\ UNCHANGED <<pipelineVars, parseVars, panicked, csg, hitv, world>>

\* ShapeList::update called with a record registered in another, longer arena,
\* or carrying a negative id
ForeignIds == {-1, Len(shapes), Len(shapes) + 1}

Update ==
    /\ Running
    /\ \E id \in ForeignIds :
          LET r == update_checked(shapes, Leaf(id, "sphere"))
          IN /\ shapes' = r.shapes
             /\ panicked' = r.panicked
             /\ calls' = calls + 1
             /\ last' = [op |-> "update", h |-> 0, arg |-> id]
             /\ UNCHANGED <<pipelineVars, parseVars, locals, minted, csg, hitv, world>>

InitArena ==
    /\ PipelineIdle
    /\ ParserIdle
    /\ shapes = << >>
    /\ locals = << >>
    /\ minted = << >>
    /\ calls = 0
    /\ last = Idle
    /\ panicked = FALSE
    /\ csg = IdleCsg
    /\ hitv = IdleHit
    /\ world = IdleWorld

NextArena ==
    \/ NewShape
    \/ NewGroup
    \/ NewCSG
    \/ SetTransform
    \/ SetMaterial
    \/ SetParent
    \/ AddChild
    \/ Update

SpecArena == InitArena /\ [][NextArena]_vars

----------------------------------------------------------------------------
(* Claims about the arena, checked under SpecArena *)

\* C1: after any sequence of constructions and set_transform / set_material /
\* set_parent / add_child calls, every arena slot i holds a record whose id is i.
C1_SlotHoldsItsId ==
    \A i \in 0..(Len(shapes) - 1) : get(shapes, i).id = i

\* C2: the ids carried by the records pushed to one arena increase strictly in
\* push order, so no two registered shapes (a Group and the bounding Cube it
\* owns included) carry the same id.
C2_MintedIdsIncrease ==
    \A i, j \in 1..Len(minted) : i < j => minted[i] < minted[j]

\* C3: immediately after s.set_transform, s.set_material, s.set_parent or
\* g.add_child returns, get(s.id) is a record of the caller's shape kind whose
\* transform, material, parent_id and child list equal the caller's.
C3_MutationRePersists ==
    last.op \in {"set_transform", "set_material", "set_parent", "add_child"} =>
        LET s == locals[last.h]
            r == get(shapes, s.id)
        IN /\ r.shape_type = s.shape_type
           /\ r.transform = s.transform
           /\ r.material = s.material
           /\ r.parent_id = s.parent_id
           /\ r.children_ids = s.children_ids

\* C4: a call of update with a record whose id is outside 0..size-1 panics and
\* leaves the arena as it was: no slot overwritten, no record appended.
C4_UpdateOutOfRangeAborts ==
    [][(last'.op = "update" /\ calls' = calls + 1 /\ AsUsize(last'.arg) >= Len(shapes))
          => (panicked' /\ shapes' = shapes)]_vars

\* an update with a negative id has panicked on a non-empty arena
C4_Witness ==
    /\ panicked
    /\ last.op = "update"
    /\ last.arg < 0
    /\ Len(shapes) > 0

\* C7: after CSG::new_with_operation(op, left, right) returns, the arena records
\* of left and right have parent_id = Some(the CSG's id) and the slot of that id
\* holds the CSG record.
C7_CsgMarksChildren ==
    last.op = "new_csg" =>
        LET c == locals[last.h]
        IN /\ \A x \in c.left_id \cup c.right_id : get(shapes, x).parent_id = Some(c.id)
           /\ get(shapes, c.id) = c
           /\ c.shape_type = "csg"

\* a CSG was just built over two different operands
C7_Witness ==
    /\ last.op = "new_csg"
    /\ locals[last.h].left_id # locals[last.h].right_id
    /\ locals[last.h].operation = Some("difference")

----------------------------------------------------------------------------
(* CSG::filter_intersects.  An intersection is [t, object]; object is the id  *)
(* of the intersected shape, the one field of it the filter reads.            *)

intersection_allowed_mutant_difference(op, lhit, inl, inr) ==
    IF op = "union" THEN (lhit /\ ~inr) \/ (~lhit /\ ~inl)
    ELSE IF op = "intersection" THEN (lhit /\ inr) \/ (~lhit /\ inl)
    ELSE IF op = "difference" THEN (lhit /\ ~inr) \/ (~lhit /\ ~inl)
    ELSE FALSE

intersection_allowed(op, lhit, inl, inr) ==
    IF op = "union" THEN (lhit /\ ~inr) \/ (~lhit /\ ~inl)
    ELSE IF op = "intersection" THEN (lhit /\ inr) \/ (~lhit /\ inl)
    ELSE IF op = "difference" THEN (lhit /\ ~inr) \/ (~lhit /\ inl)
    ELSE FALSE

\* the value of a Some
Unwrap(opt) == CHOOSE x \in opt : TRUE

\* lhit of one record: shape_list.get(self.left_id.unwrap()).includes(object_id)
filter_lhit(self, intersection, list) ==
    includes(get(list, Unwrap(self.left_id)), intersection.object)

RECURSIVE filter_loop(_, _, _, _, _, _)
\* the loop of filter_intersects from record k on, with the flags and the
\* result so far
filter_loop(self, xs, list, k, in, result) ==
    IF k > Len(xs) THEN result
    ELSE LET lhit == filter_lhit(self, xs[k], list)
             kept == IF intersection_allowed(Unwrap(self.operation), lhit, in.inl, in.inr)
                     THEN Append(result, xs[k]) ELSE result
             next == IF lhit THEN [in EXCEPT !.inl = ~in.inl]
                     ELSE [in EXCEPT !.inr = ~in.inr]
         IN filter_loop(self, xs, list, k + 1, next, kept)

filter_intersects(self, xs, list) ==
    filter_loop(self, xs, list, 1, [inl |-> FALSE, inr |-> FALSE], << >>)

----------------------------------------------------------------------------
(* Scenes holding a CSG node, built with the constructors above the way the   *)
(* tests and the examples build them.  Each is [shapes, node]: the arena and  *)
(* the id of the CSG.                                                         *)

\* csg_intersection_filtering: CSG(op, sphere, cube)
SceneFlat(op) ==
    LET s1 == Shape_new("sphere", << >>)
        s2 == Shape_new("cube", s1.shapes)
        c == CSG_new_with_operation(op, s1.shape.id, s2.shape.id, s2.shapes)
    IN [shapes |-> c.shapes, node |-> c.shape.id]

\* CSG(op, group of one sphere, sphere)
SceneGroup(op) ==
    LET g == Group_new(<< >>)
        s1 == Shape_new("sphere", g.shapes)
        s2 == Shape_new("sphere", s1.shapes)
        a == Group_add_child(g.shape, s1.shape, s2.shapes)
        c == CSG_new_with_operation(op, a.shape.id, s2.shape.id, a.shapes)
    IN [shapes |-> c.shapes, node |-> c.shape.id]

\* CSG(op, group of a group of one sphere, sphere)
SceneNestedGroup(op) ==
    LET g1 == Group_new(<< >>)
        g2 == Group_new(g1.shapes)
        s1 == Shape_new("sphere", g2.shapes)
        s2 == Shape_new("sphere", s1.shapes)
        a2 == Group_add_child(g2.shape, s1.shape, s2.shapes)
        a1 == Group_add_child(g1.shape, a2.shape, a2.shapes)
        c == CSG_new_with_operation(op, a1.shape.id, s2.shape.id, a1.shapes)
    IN [shapes |-> c.shapes, node |-> c.shape.id]

\* CSG(op, CSG(union, CSG(union, sphere, sphere), sphere), sphere)
SceneNestedCsg(op) ==
    LET s1 == Shape_new("sphere", << >>)
        s2 == Shape_new("sphere", s1.shapes)
        s3 == Shape_new("sphere", s2.shapes)
        s4 == Shape_new("sphere", s3.shapes)
        c0 == CSG_new_with_operation("union", s1.shape.id, s2.shape.id, s4.shapes)
        c1 == CSG_new_with_operation("union", c0.shape.id, s3.shape.id, c0.shapes)
        c == CSG_new_with_operation(op, c1.shape.id, s4.shape.id, c1.shapes)
    IN [shapes |-> c.shapes, node |-> c.shape.id]

Scenes ==
    UNION {{SceneFlat(op), SceneGroup(op), SceneNestedGroup(op), SceneNestedCsg(op)} :
           op \in Operations}

\* the shapes a ray can hit beneath a node: the leaves nested in it
LeavesBeneath(list, shape) ==
    {i \in Nested(list, shape, Len(list)) :
        get(list, i).shape_type \notin {"group", "csg"}}

\* the lists of at most MaxXs intersections of the given objects with t in
\* 1..MaxT, sorted ascending by t as CSG::intersects sorts them
IsSorted(xs) == \A k \in 1..(Len(xs) - 1) : xs[k].t <= xs[k + 1].t

SortedXs(objects) ==
    {xs \in UNION {[1..n -> [t : 1..MaxT, object : objects]] : n \in 0..MaxXs} :
        IsSorted(xs)}

\* c.filter_intersects(&xs, shape_list) on the scene's CSG node
FilterIntersects ==
    /\ ~csg.called
    /\ LET self == get(shapes, Unwrap(csg.node))
           xs == csg.xs
       IN csg' = [csg EXCEPT !.called = TRUE,
                             !.lhits = [k \in 1..Len(xs) |-> filter_lhit(self, xs[k], shapes)],
                             !.result = filter_intersects(self, xs, shapes)]
    /\ UNCHANGED <<pipelineVars, parseVars, shapes, locals, minted, calls, last, panicked, hitv, world>>

InitCSG ==
    /\ PipelineIdle
    /\ ParserIdle
    /\ \E scene \in Scenes :
          /\ shapes = scene.shapes
          /\ \E xs \in SortedXs(LeavesBeneath(scene.shapes, get(scene.shapes, scene.node))) :
                csg = [IdleCsg EXCEPT !.node = Some(scene.node), !.xs = xs]
    /\ locals = << >>
    /\ minted = << >>
    /\ calls = 0
    /\ last = Idle
    /\ panicked = FALSE
    /\ hitv = IdleHit
    /\ world = IdleWorld

NextCSG == FilterIntersects

SpecCSG == InitCSG /\ [][NextCSG]_vars

----------------------------------------------------------------------------
(* Claims about the CSG filter, checked under SpecCSG *)

\* Table 1, as the rows of csg_allow_intersection_union / _intersection /
\* _difference: the (lhit, inl, inr) triples each operation accepts
Table1(op) ==
    IF op = "union"
    THEN {<<TRUE, TRUE, FALSE>>, <<TRUE, FALSE, FALSE>>, <<FALSE, FALSE, TRUE>>, <<FALSE, FALSE, FALSE>>}
    ELSE IF op = "intersection"
    THEN {<<TRUE, TRUE, TRUE>>, <<TRUE, FALSE, TRUE>>, <<FALSE, TRUE, TRUE>>, <<FALSE, TRUE, FALSE>>}
    ELSE {<<TRUE, TRUE, FALSE>>, <<TRUE, FALSE, FALSE>>, <<FALSE, TRUE, TRUE>>, <<FALSE, TRUE, FALSE>>}

\* whether an odd number of the first k - 1 records have lhit = b
Toggled(lhits, k, b) == Cardinality({j \in 1..(k - 1) : lhits[j] = b}) % 2 = 1

\* the records of xs at the indices in S, in order
RECURSIVE Pick(_, _, _)
Pick(xs, S, k) ==
    IF k > Len(xs) THEN << >>
    ELSE (IF k \in S THEN <<xs[k]>> ELSE << >>) \o Pick(xs, S, k + 1)

\* C5: for each operation and each t-sorted list, filter_intersects keeps a
\* record exactly when Table 1 accepts (lhit, inl, inr) at it, inl and inr
\* starting false and, after each record, inl toggled if lhit and inr otherwise.
C5_FilterFollowsTable1 ==
    csg.called =>
        LET op == Unwrap(get(shapes, Unwrap(csg.node)).operation)
            keep == {k \in 1..Len(csg.xs) :
                        <<csg.lhits[k], Toggled(csg.lhits, k, TRUE), Toggled(csg.lhits, k, FALSE)>>
                            \in Table1(op)}
        IN csg.result = Pick(csg.xs, keep, 1)

\* the filter ran on four records of alternating sides and kept some, not all
C5_Witness ==
    /\ csg.called
    /\ Len(csg.xs) = 4
    /\ csg.lhits = <<TRUE, FALSE, TRUE, FALSE>>
    /\ Len(csg.result) = 2
    /\ get(shapes, Unwrap(csg.node)).operation = Some("difference")

\* C6: when the filter asks whether a hit belongs to the left subtree, a Group
\* or CSG left operand answers true for the id of every shape nested at any
\* depth beneath it.
C6_IncludesIsRecursive ==
    csg.called =>
        LET left == get(shapes, Unwrap(get(shapes, Unwrap(csg.node)).left_id))
        IN left.shape_type \in {"group", "csg"} =>
              \A k \in 1..Len(csg.xs) :
                  csg.xs[k].object \in Nested(shapes, left, Len(shapes)) => csg.lhits[k]

----------------------------------------------------------------------------
(* intersection::hit.  Option<Intersection> is << >> (None) or <<x>> (Some). *)

\* the t values of the model: behind the ray origin, at it, and in front
TValues == (0 - 1)..MaxT

\* Float::max(), f64::MAX: above every t of the model
FloatMax == MaxT + 1

RECURSIVE hit_loop_mutant_no_return(_, _, _)
\* the loop without its early return: min_t is never lowered, so the last
\* positive record wins
hit_loop_mutant_no_return(intersections, k, min_intersect) ==
    IF k > Len(intersections) THEN min_intersect
    ELSE IF intersections[k].t > 0 /\ intersections[k].t < FloatMax
    THEN hit_loop_mutant_no_return(intersections, k + 1, <<intersections[k]>>)
    ELSE hit_loop_mutant_no_return(intersections, k + 1, min_intersect)

hit_mutant_no_return(intersections) ==
    IF Len(intersections) = 0 THEN << >>
    ELSE hit_loop_mutant_no_return(intersections, 1, << >>)

RECURSIVE hit_loop_mutant_non_negative(_, _)
hit_loop_mutant_non_negative(intersections, k) ==
    IF k > Len(intersections) THEN << >>
    ELSE IF intersections[k].t >= 0 /\ intersections[k].t < FloatMax
    THEN <<intersections[k]>>
    ELSE hit_loop_mutant_non_negative(intersections, k + 1)

RECURSIVE hit_loop(_, _)
\* the for loop from record k on: return at the first record with
\* t > 0 and t < min_t; min_t stays Float::max(), so falling out of the
\* loop returns None
hit_loop(intersections, k) ==
    IF k > Len(intersections) THEN << >>
    ELSE IF intersections[k].t > 0 /\ intersections[k].t < FloatMax
    THEN <<intersections[k]>>
    ELSE hit_loop(intersections, k + 1)

hit(intersections) ==
    IF Len(intersections) = 0 THEN << >>
    ELSE hit_loop(intersections, 1)

\* the intersections of the two objects of a scene, in any order
WorldObjects == {0, 1}

AllXs == UNION {[1..n -> [t : TValues, object : WorldObjects]] : n \in 0..MaxXs}

\* intersection::hit(xs) called on a list as a caller hands it over
Hit ==
    /\ ~hitv.called
    /\ hitv' = [hitv EXCEPT !.called = TRUE, !.result = hit(hitv.xs)]
    /\ UNCHANGED <<pipelineVars, parseVars, shapes, locals, minted, calls, last, panicked, csg, world>>

InitHit ==
    /\ PipelineIdle
    /\ ParserIdle
    /\ \E xs \in AllXs : hitv = [IdleHit EXCEPT !.xs = xs]
    /\ shapes = << >>
    /\ locals = << >>
    /\ minted = << >>
    /\ calls = 0
    /\ last = Idle
    /\ panicked = FALSE
    /\ csg = IdleCsg
    /\ world = IdleWorld

NextHit == Hit

SpecHit == InitHit /\ [][NextHit]_vars

----------------------------------------------------------------------------
(* Claims about hit, checked under SpecHit *)

\* the indices of the records in front of the ray origin
Positive(xs) == {k \in 1..Len(xs) : xs[k].t > 0}

Least(S) == CHOOSE k \in S : \A j \in S : k <= j

\* C8 as stated: for any order of xs, hit(xs) is a record of the smallest
\* strictly positive t among all the records of xs.
C8_HitIsMinimumAnyOrder ==
    hitv.called =>
        IF Positive(hitv.xs) = {} THEN hitv.result = << >>
        ELSE /\ Len(hitv.result) = 1
             /\ hitv.result[1].t > 0
             /\ \A k \in Positive(hitv.xs) : hitv.result[1].t <= hitv.xs[k].t

\* C8 as amended: for any order of xs, hit(xs) is the first record of xs, in
\* list order, with t > 0, and none when no record has t > 0.
C8_HitIsFirstPositive ==
    hitv.called =>
        IF Positive(hitv.xs) = {} THEN hitv.result = << >>
        ELSE hitv.result = <<hitv.xs[Least(Positive(hitv.xs))]>>

\* hit ran on an unsorted list and returned a record that is not the nearest
C8_Witness ==
    /\ hitv.called
    /\ ~IsSorted(hitv.xs)
    /\ Len(hitv.result) = 1
    /\ \E k \in Positive(hitv.xs) : hitv.xs[k].t < hitv.result[1].t

----------------------------------------------------------------------------
(* World::intersects, and the calls of hit that color_at_impl and is_shadowed  *)
(* make.  world.objects[k] is what the k-th object's intersects returns for  *)
(* the ray at hand.                                                           *)

RECURSIVE Concat(_)
\* intersections.append(..) over the objects, in object order
Concat(lists) ==
    IF lists = << >> THEN << >> ELSE Head(lists) \o Concat(Tail(lists))

\* where a stable ascending sort puts x in a sorted list: after the records
\* that do not compare greater
InsertByT(sorted, x) ==
    LET n == Cardinality({k \in 1..Len(sorted) : sorted[k].t <= x.t})
    IN SubSeq(sorted, 1, n) \o <<x>> \o SubSeq(sorted, n + 1, Len(sorted))

RECURSIVE sort_by_t(_)
\* intersections.sort_by(|a, b| a.t.partial_cmp(&b.t).unwrap()): a stable sort
sort_by_t(xs) ==
    IF xs = << >> THEN << >>
    ELSE InsertByT(sort_by_t(SubSeq(xs, 1, Len(xs) - 1)), xs[Len(xs)])

World_intersects_mutant_no_sort(objects) == Concat(objects)

World_intersects(objects) == sort_by_t(Concat(objects))

World_is_shadowed_mutant_any_hit(objects, distance) ==
    LET intersections == World_intersects(objects)
        h == hit(intersections)
    IN [hit_arg |-> intersections, hit |-> h, shadowed |-> h # << >>]

\* is_shadowed from the intersections on: a hit nearer than the light
World_is_shadowed(objects, distance) ==
    LET intersections == World_intersects(objects)
        h == hit(intersections)
    IN [hit_arg |-> intersections, hit |-> h,
        shadowed |-> IF h # << >> THEN h[1].t < distance ELSE FALSE]

\* color_at_impl up to the hit: intersects, then hit on a clone of the list
World_color_at_hit(objects) ==
    LET intersections == World_intersects(objects)
    IN [hit_arg |-> intersections, hit |-> hit(intersections)]

\* what one object can return for a ray: at most MaxPerObject records of itself
ObjectXs(o) == UNION {[1..n -> [t : TValues, object : {o}]] : n \in 0..MaxPerObject}

\* the distances from a point to the light
Distances == 1..MaxT

Intersects ==
    /\ world.caller = "none"
    /\ world' = [world EXCEPT !.caller = "intersects",
                              !.xs = World_intersects(world.objects)]
    /\ UNCHANGED <<pipelineVars, parseVars, shapes, locals, minted, calls, last, panicked, csg, hitv>>

ColorAt ==
    /\ world.caller = "none"
    /\ LET r == World_color_at_hit(world.objects)
       IN world' = [world EXCEPT !.caller = "color_at",
                                 !.xs = World_intersects(world.objects),
                                 !.hit_arg = r.hit_arg, !.hit = r.hit]
    /\ UNCHANGED <<pipelineVars, parseVars, shapes, locals, minted, calls, last, panicked, csg, hitv>>

IsShadowed ==
    /\ world.caller = "none"
    /\ \E distance \in Distances :
          LET r == World_is_shadowed(world.objects, distance)
          IN world' = [world EXCEPT !.caller = "is_shadowed",
                                    !.xs = World_intersects(world.objects),
                                    !.hit_arg = r.hit_arg, !.hit = r.hit,
                                    !.distance = distance, !.shadowed = r.shadowed]
    /\ UNCHANGED <<pipelineVars, parseVars, shapes, locals, minted, calls, last, panicked, csg, hitv>>

InitWorld ==
    /\ PipelineIdle
    /\ ParserIdle
    /\ \E a \in ObjectXs(0), b \in ObjectXs(1) :
          world = [IdleWorld EXCEPT !.objects = <<a, b>>]
    /\ shapes = << >>
    /\ locals = << >>
    /\ minted = << >>
    /\ calls = 0
    /\ last = Idle
    /\ panicked = FALSE
    /\ csg = IdleCsg
    /\ hitv = IdleHit

NextWorld ==
    \/ Intersects
    \/ ColorAt
    \/ IsShadowed

SpecWorld == InitWorld /\ [][NextWorld]_vars

----------------------------------------------------------------------------
(* Claims about World::intersects, checked under SpecWorld *)

\* how often a record occurs in a list
Count(xs, x) == Cardinality({k \in 1..Len(xs) : xs[k] = x})

Records(xs) == {xs[k] : k \in 1..Len(xs)}

\* C10: World.intersects returns a list in non-decreasing t order holding
\* exactly the intersections the objects returned, none dropped and none
\* added, so every list color_at and is_shadowed pass to hit is sorted.
C10_IntersectsIsSortedPermutation ==
    world.caller # "none" =>
        LET all == Concat(world.objects)
        IN /\ IsSorted(world.xs)
           /\ Len(world.xs) = Len(all)
           /\ \A x \in Records(all) \cup Records(world.xs) :
                 Count(world.xs, x) = Count(all, x)
           /\ world.caller \in {"color_at", "is_shadowed"} =>
                 (IsSorted(world.hit_arg) /\ world.hit_arg = world.xs)

\* is_shadowed ran on a world whose objects' intersections interleave, the
\* second object's first record being the nearest hit
C10_Witness ==
    /\ world.caller = "is_shadowed"
    /\ ~IsSorted(Concat(world.objects))
    /\ Len(world.xs) = 4
    /\ world.hit # << >>
    /\ world.hit[1].object = 1
    /\ world.shadowed

\* C15: is_shadowed(point) is true exactly when the ray cast from point toward
\* the light has some intersection with 0 < t < distance to the light; it is
\* false when there is none, or all lie behind the point or beyond the light.
C15_ShadowedIffHitBeforeLight ==
    world.caller = "is_shadowed" =>
        (world.shadowed <=>
            \E x \in Records(Concat(world.objects)) : 0 < x.t /\ x.t < world.distance)

\* is_shadowed answered false although the ray hits objects: one behind the
\* point, one beyond the light
C15_Witness ==
    /\ world.caller = "is_shadowed"
    /\ ~world.shadowed
    /\ \E x \in Records(Concat(world.objects)) : x.t < 0
    /\ \E x \in Records(Concat(world.objects)) : x.t > world.distance

----------------------------------------------------------------------------
(* World::color_at and the recursion of color_at_impl, shade_hit_impl,        *)
(* reflected_color_impl and refracted_color_impl, as a stack of frames, one   *)
(* per color_at_impl call in progress.  A Color is Black or Lit (some channel *)
(* positive); reflective, transparency and the Schlick reflectance are 0 or 1 *)
(* and sin2_t ranges over 0..2, so that sin2_t > 1 has both outcomes.         *)

\* world.max_recursion is at most MaxRecursion
MaxRecursion == 2

Black == 0
Lit == 1
Colors == {Black, Lit}

\* Color + Color
ColorAdd(a, b) == IF a = Black /\ b = Black THEN Black ELSE Lit
\* Color * f64
ColorScale(c, f) == IF f = 0 THEN Black ELSE c

\* the material fields the recursion reads
Materials == [reflective : {0, 1}, transparency : {0, 1}]
Sin2T == 0..2

\* reflected_color_impl up to its secondary ray: an early return of
\* Color::black(), or color_at_impl(&reflected_ray, remaining - 1)
reflected_color_impl_mutant_same_remaining(material, remaining) ==
    IF remaining < 1 THEN [cast |-> FALSE, color |-> Black, remaining |-> remaining]
    ELSE IF material.reflective = 0
    THEN [cast |-> FALSE, color |-> Black, remaining |-> remaining]
    ELSE [cast |-> TRUE, color |-> Black, remaining |-> remaining]

reflected_color_impl_mutant_no_reflective_test(material, remaining) ==
    IF remaining < 1 THEN [cast |-> FALSE, color |-> Black, remaining |-> remaining]
    ELSE [cast |-> TRUE, color |-> Black, remaining |-> remaining - 1]

reflected_color_impl(material, remaining) ==
    IF remaining < 1 THEN [cast |-> FALSE, color |-> Black, remaining |-> remaining]
    ELSE IF material.reflective = 0
    THEN [cast |-> FALSE, color |-> Black, remaining |-> remaining]
    ELSE [cast |-> TRUE, color |-> Black, remaining |-> remaining - 1]

\* refracted_color_impl up to its secondary ray
refracted_color_impl_mutant_no_total_reflection(material, sin2_t, remaining) ==
    IF remaining < 1 THEN [cast |-> FALSE, color |-> Black, remaining |-> remaining]
    ELSE IF material.transparency = 0
    THEN [cast |-> FALSE, color |-> Black, remaining |-> remaining]
    ELSE [cast |-> TRUE, color |-> Black, remaining |-> remaining - 1]

refracted_color_impl(material, sin2_t, remaining) ==
    IF remaining < 1 THEN [cast |-> FALSE, color |-> Black, remaining |-> remaining]
    ELSE IF material.transparency = 0
    THEN [cast |-> FALSE, color |-> Black, remaining |-> remaining]
    ELSE IF sin2_t > 1
    THEN [cast |-> FALSE, color |-> Black, remaining |-> remaining]
    ELSE [cast |-> TRUE, color |-> Black, remaining |-> remaining - 1]

\* the return statement of shade_hit_impl
shade_hit_sum(frame, reflectance) ==
    IF frame.material.reflective > 0 /\ frame.material.transparency > 0
    THEN ColorAdd(frame.surface,
                  ColorAdd(ColorScale(frame.reflected, reflectance),
                           ColorScale(frame.refracted, 1 - reflectance)))
    ELSE ColorAdd(frame.surface, ColorAdd(frame.reflected, frame.refracted))

\* a color_at_impl call that has not yet intersected its ray
Frame(remaining) ==
    [remaining |-> remaining, pc |-> "intersect", material |-> [reflective |-> 0, transparency |-> 0],
     surface |-> Black, reflected |-> Black, refracted |-> Black]

NoCall == [fn |-> "none", remaining |-> 0, material |-> [reflective |-> 0, transparency |-> 0],
           sin2_t |-> 0, cast |-> FALSE, color |-> Black]

Top == trace.stack[Len(trace.stack)]

\* replace the top frame
SetTop(stack, frame) == [stack EXCEPT ![Len(stack)] = frame]

\* a color_at_impl call returns color: the frame is popped and the caller,
\* reflected_color_impl or refracted_color_impl, scales the colour
Return(stack, color) ==
    LET rest == SubSeq(stack, 1, Len(stack) - 1)
    IN IF rest = << >> THEN rest
       ELSE LET caller == rest[Len(rest)]
            IN IF caller.pc = "in_reflected"
               THEN SetTop(rest, [caller EXCEPT !.pc = "refracted",
                                    !.reflected = ColorScale(color, caller.material.reflective)])
               ELSE SetTop(rest, [caller EXCEPT !.pc = "sum",
                                    !.refracted = ColorScale(color, caller.material.transparency)])

\* the nesting the model follows: one call beyond what max_recursion allows
StackCap == MaxRecursion + 2

\* world.color_at(ray): color_at_impl(ray, self.max_recursion)
ColorAtCall ==
    /\ trace.pc = "ready"
    /\ trace' = [trace EXCEPT !.pc = "running", !.stack = <<Frame(trace.max_recursion)>>,
                              !.deepest = 1, !.last = NoCall]
    /\ UNCHANGED <<shapes, locals, minted, calls, last, panicked, csg, hitv, world,
                   comps, light, render, camera, parser>>

\* color_at_impl: the ray hits nothing, the colour is black
LookupMiss ==
    /\ trace.pc = "running"
    /\ Top.pc = "intersect"
    /\ LET stack == Return(trace.stack, Black)
       IN trace' = [trace EXCEPT !.stack = stack, !.last = NoCall,
                                 !.pc = IF stack = << >> THEN "done" ELSE "running",
                                 !.result = IF stack = << >> THEN Black ELSE @]
    /\ UNCHANGED <<shapes, locals, minted, calls, last, panicked, csg, hitv, world,
                   comps, light, render, camera, parser>>

\* color_at_impl: the ray hits an object; shade_hit_impl computes its surface
\* colour
LookupHit ==
    /\ trace.pc = "running"
    /\ Top.pc = "intersect"
    /\ \E material \in Materials, surface \in Colors :
          trace' = [trace EXCEPT !.last = NoCall,
                                 !.stack = SetTop(@, [Top EXCEPT !.pc = "reflected",
                                                          !.material = material,
                                                          !.surface = surface])]
    /\ UNCHANGED <<shapes, locals, minted, calls, last, panicked, csg, hitv, world,
                   comps, light, render, camera, parser>>

\* shade_hit_impl calls reflected_color_impl(comps, remaining)
Reflected ==
    /\ trace.pc = "running"
    /\ Top.pc = "reflected"
    /\ LET r == reflected_color_impl(Top.material, Top.remaining)
           stack == IF r.cast
                    THEN Append(SetTop(trace.stack, [Top EXCEPT !.pc = "in_reflected"]),
                                Frame(r.remaining))
                    ELSE SetTop(trace.stack, [Top EXCEPT !.pc = "refracted",
                                                         !.reflected = r.color])
       IN /\ Len(stack) <= StackCap
          /\ trace' = [trace EXCEPT !.stack = stack,
                          !.deepest = IF Len(stack) > @ THEN Len(stack) ELSE @,
                          !.last = [fn |-> "reflected_color", remaining |-> Top.remaining,
                                    material |-> Top.material, sin2_t |-> 0,
                                    cast |-> Len(stack) > Len(trace.stack),
                                    color |-> stack[Len(trace.stack)].reflected]]
    /\ UNCHANGED <<shapes, locals, minted, calls, last, panicked, csg, hitv, world,
                   comps, light, render, camera, parser>>

\* shade_hit_impl calls refracted_color_impl(comps, remaining)
Refracted ==
    /\ trace.pc = "running"
    /\ Top.pc = "refracted"
    /\ \E sin2_t \in Sin2T :
          LET r == refracted_color_impl(Top.material, sin2_t, Top.remaining)
              stack == IF r.cast
                       THEN Append(SetTop(trace.stack, [Top EXCEPT !.pc = "in_refracted"]),
                                   Frame(r.remaining))
                       ELSE SetTop(trace.stack, [Top EXCEPT !.pc = "sum",
                                                            !.refracted = r.color])
          IN /\ Len(stack) <= StackCap
             /\ trace' = [trace EXCEPT !.stack = stack,
                             !.deepest = IF Len(stack) > @ THEN Len(stack) ELSE @,
                             !.last = [fn |-> "refracted_color", remaining |-> Top.remaining,
                                       material |-> Top.material, sin2_t |-> sin2_t,
                                       cast |-> Len(stack) > Len(trace.stack),
                                       color |-> stack[Len(trace.stack)].refracted]]
    /\ UNCHANGED <<shapes, locals, minted, calls, last, panicked, csg, hitv, world,
                   comps, light, render, camera, parser>>

\* shade_hit_impl returns the sum, and with it color_at_impl
ShadeReturn ==
    /\ trace.pc = "running"
    /\ Top.pc = "sum"
    /\ \E reflectance \in {0, 1} :
          LET color == shade_hit_sum(Top, reflectance)
              stack == Return(trace.stack, color)
          IN trace' = [trace EXCEPT !.stack = stack, !.last = NoCall,
                                    !.pc = IF stack = << >> THEN "done" ELSE "running",
                                    !.result = IF stack = << >> THEN color ELSE @]
    /\ UNCHANGED <<shapes, locals, minted, calls, last, panicked, csg, hitv, world,
                   comps, light, render, camera, parser>>

InitColor ==
    /\ \E max_recursion \in 0..MaxRecursion :
          trace = [pc |-> "ready", max_recursion |-> max_recursion, stack |-> << >>,
                   deepest |-> 0, result |-> Black, last |-> NoCall]
    /\ comps = IdleComps
    /\ light = IdleLight
    /\ render = IdleRender
    /\ camera = IdleCamera
    /\ ParserIdle
    /\ shapes = << >>
    /\ locals = << >>
    /\ minted = << >>
    /\ calls = 0
    /\ last = Idle
    /\ panicked = FALSE
    /\ csg = IdleCsg
    /\ hitv = IdleHit
    /\ world = IdleWorld

NextColor ==
    \/ ColorAtCall
    \/ LookupMiss
    \/ LookupHit
    \/ Reflected
    \/ Refracted
    \/ ShadeReturn

\* the program is sequential: a call in progress takes its next step
SpecColor == InitColor /\ [][NextColor]_vars /\ WF_vars(NextColor)

----------------------------------------------------------------------------
(* Claims about the recursion of colour lookups, checked under SpecColor *)

\* C11: color_at terminates for every world and ray: every colour lookup made
\* by reflected_color or refracted_color passes remaining - 1, no lookup is
\* started with remaining < 0, and the nesting depth of colour lookups never
\* exceeds max_recursion + 1.
C11_ColorAtTerminates ==
    /\ [][(trace.pc = "running" /\ trace'.pc = "running"
             /\ Len(trace'.stack) > Len(trace.stack))
           => trace'.stack[Len(trace'.stack)].remaining = Top.remaining - 1]_vars
    /\ [](trace.pc = "running" =>
            /\ \A k \in 1..Len(trace.stack) : trace.stack[k].remaining >= 0
            /\ Len(trace.stack) <= trace.max_recursion + 1)
    /\ <>(trace.pc = "done")

\* a lookup between facing mirrors has returned after nesting max_recursion + 1
\* deep
C11_Witness ==
    /\ trace.pc = "done"
    /\ trace.max_recursion = MaxRecursion
    /\ trace.deepest = trace.max_recursion + 1
    /\ trace.result = Lit

\* C12: reflected_color returns black and casts no secondary ray whenever
\* remaining < 1 or material.reflective = 0.
C12_ReflectedBlackWithoutRay ==
    (/\ trace.pc = "running"
     /\ trace.last.fn = "reflected_color"
     /\ (trace.last.remaining < 1 \/ trace.last.material.reflective = 0))
        => (~trace.last.cast /\ trace.last.color = Black)

\* reflected_color was called on a mirror with no bounce left
C12_Witness ==
    /\ trace.pc = "running"
    /\ trace.last.fn = "reflected_color"
    /\ trace.last.remaining = 0
    /\ trace.last.material.reflective = 1
    /\ ~trace.last.cast
    /\ Len(trace.stack) > 1

\* C13: refracted_color returns black and casts no secondary ray whenever
\* remaining < 1, material.transparency = 0 or sin2_t > 1.
C13_RefractedBlackWithoutRay ==
    (/\ trace.pc = "running"
     /\ trace.last.fn = "refracted_color"
     /\ \/ trace.last.remaining < 1
        \/ trace.last.material.transparency = 0
        \/ trace.last.sin2_t > 1)
        => (~trace.last.cast /\ trace.last.color = Black)

\* refracted_color was called on a transparent object with bounces left and
\* found total internal reflection
C13_Witness ==
    /\ trace.pc = "running"
    /\ trace.last.fn = "refracted_color"
    /\ trace.last.remaining >= 1
    /\ trace.last.material.transparency = 1
    /\ trace.last.sin2_t > 1
    /\ ~trace.last.cast

----------------------------------------------------------------------------
(* intersection::prepare_computations: the scan that sets n1 and n2.  t is    *)
(* counted in halves of FLOAT_THRESHOLD, so that two different t can be equal *)
(* as Float compares them; a refractive index is a small integer, 1 for the   *)
(* Float(1.0) of empty space.  An object is the snapshot the intersection     *)
(* carries: its id, material and transform.                                   *)

\* FLOAT_THRESHOLD in halves of itself
FloatThreshold == 2

\* Float == Float: the difference is below the threshold, either way round
FloatEq(a, b) ==
    ((a - b) < FloatThreshold /\ (a - b) >= 0) \/ ((b - a) < FloatThreshold /\ (b - a) >= 0)

\* Box<dyn Shape> == Box<dyn Shape>
ShapeEq(a, b) == a.id = b.id /\ a.material = b.material /\ a.transform = b.transform

\* the derived Intersection == Intersection: t and object, field by field
IntersectionEq(a, b) == FloatEq(a.t, b.t) /\ ShapeEq(a.object, b.object)

\* n1 and n2 start as Float(1.0)
EmptySpaceIndex == 1

\* glass objects of different refractive indices
GlassObjects ==
    {[id |-> i, material |-> [refractive_index |-> i + 2], transform |-> Identity] : i \in WorldObjects}

\* container.last().unwrap().material().refractive_index, or 1.0 when empty
LastIndex(container) ==
    IF container = << >> THEN EmptySpaceIndex
    ELSE container[Len(container)].material.refractive_index

\* step 2 of the loop: remove inter.object from container at the first place
\* it is found, otherwise push it
ToggleObject(container, object) ==
    LET found == {j \in 1..Len(container) : ShapeEq(object, container[j])}
    IN IF found = {} THEN Append(container, object)
       ELSE LET j == CHOOSE x \in found : \A y \in found : x <= y
            IN SubSeq(container, 1, j - 1) \o SubSeq(container, j + 1, Len(container))

RECURSIVE prepare_loop(_, _, _, _)
\* the loop over intersections from record k on; it breaks at the first record
\* that compares equal to the hit
prepare_loop(intersection, intersections, k, container) ==
    IF k > Len(intersections)
    THEN [n1 |-> EmptySpaceIndex, n2 |-> EmptySpaceIndex, container |-> container, stopped |-> 0]
    ELSE LET inter == intersections[k]
             is_inter_hit == IntersectionEq(inter, intersection)
             toggled == ToggleObject(container, inter.object)
         IN IF is_inter_hit
            THEN [n1 |-> LastIndex(container), n2 |-> LastIndex(toggled),
                  container |-> toggled, stopped |-> k]
            ELSE prepare_loop(intersection, intersections, k + 1, toggled)

\* the n1, n2 part of prepare_computations
prepare_computations(intersection, intersections) ==
    prepare_loop(intersection, intersections, 1, << >>)

\* the sorted lists World::intersects can return for a ray through glass objects
GlassXs ==
    {xs \in UNION {[1..n -> [t : TValues, object : GlassObjects]] : n \in 1..MaxXs} :
        IsSorted(xs)}

\* color_at_impl: hit, then prepare_computations(hit.unwrap(), ray, intersections)
PrepareComputations ==
    /\ ~comps.called
    /\ hit(comps.xs) # << >>
    /\ LET h == hit(comps.xs)[1]
           r == prepare_computations(h, comps.xs)
       IN comps' = [comps EXCEPT !.called = TRUE, !.hit = <<h>>, !.n1 = r.n1, !.n2 = r.n2,
                                 !.container = r.container, !.stopped = r.stopped]
    /\ UNCHANGED <<shapes, locals, minted, calls, last, panicked, csg, hitv, world,
                   trace, light, render, camera, parser>>

InitComps ==
    /\ \E xs \in GlassXs :
          comps = [called |-> FALSE, xs |-> xs, hit |-> << >>, n1 |-> EmptySpaceIndex,
                   n2 |-> EmptySpaceIndex, container |-> << >>, stopped |-> 0]
    /\ trace = IdleTrace
    /\ light = IdleLight
    /\ render = IdleRender
    /\ camera = IdleCamera
    /\ ParserIdle
    /\ shapes = << >>
    /\ locals = << >>
    /\ minted = << >>
    /\ calls = 0
    /\ last = Idle
    /\ panicked = FALSE
    /\ csg = IdleCsg
    /\ hitv = IdleHit
    /\ world = IdleWorld

NextComps == PrepareComputations

SpecComps == InitComps /\ [][NextComps]_vars

----------------------------------------------------------------------------
(* Claims about prepare_computations, checked under SpecComps *)

\* the position of the hit in xs: the first record with t > 0, as hit chose it
HitIndex(xs) == CHOOSE k \in 1..Len(xs) : xs[k].t > 0 /\ \A j \in 1..(k - 1) : xs[j].t <= 0

\* the objects that occur an odd number of times among the first k records
OddObjects(xs, k) ==
    {o \in GlassObjects : Cardinality({j \in 1..k : xs[j].object = o}) % 2 = 1}

RECURSIVE Containers(_, _)
\* containers after the first k records: each record's object toggled in turn
Containers(xs, k) ==
    IF k = 0 THEN << >> ELSE ToggleObject(Containers(xs, k - 1), xs[k].object)

\* C14: over a sorted xs, at the hit record n1 is the refractive index of the
\* last object in containers (1.0 if empty), the hit's object is then toggled,
\* n2 is the refractive index of the last object after the toggle (1.0 if
\* empty), and containers then holds exactly the objects that occur an odd
\* number of times in xs up to and including the hit.
C14_RefractiveIndicesAtHit ==
    comps.called =>
        LET h == HitIndex(comps.xs)
        IN /\ comps.n1 = LastIndex(Containers(comps.xs, h - 1))
           /\ comps.n2 = LastIndex(Containers(comps.xs, h))
           /\ Records(comps.container) = OddObjects(comps.xs, h)

----------------------------------------------------------------------------
(* Light::lighting and Light::compute_average_rays_to, on one colour channel. *)
(* A channel value is an integer count of 1/ray_count, so that the average    *)
(* (ray_count - ray_hits) / ray_count is the integer ray_count - ray_hits and *)
(* 1.0 is ray_count.  Products are left unscaled.  The dot products are -1,   *)
(* 0 or 1 and the specular factor powf(reflect_dot_eye, shininess) is 1.      *)

\* light.ray_count is at most MaxRays
MaxRays == 2

RECURSIVE count_ray_hits(_, _, _)
\* the loop of compute_average_rays_to: blocked[k] is whether the k-th sample
\* ray has a hit nearer than the sampled point of the light
count_ray_hits(blocked, k, ray_hits) ==
    IF k > Len(blocked) THEN ray_hits
    ELSE count_ray_hits(blocked, k + 1, IF blocked[k] THEN ray_hits + 1 ELSE ray_hits)

\* Color::new(average_ray_hits, ..): (ray_count - ray_hits) / ray_count
compute_average_rays_to(light_source, blocked) ==
    light_source.ray_count - count_ray_hits(blocked, 1, 0)

Light_lighting(material, light_source, light_dot_normal, reflect_dot_eye, in_shadow, blocked) ==
    LET color == material.color
        effective_color == color * light_source.intensity
        ambient == effective_color * material.ambient
    IN IF light_source.radius = None /\ (light_dot_normal < 0 \/ in_shadow)
       THEN [ambient |-> ambient, diffuse |-> 0, specular |-> 0, returned_early |-> TRUE,
             light_intensity |-> light_source.intensity, result |-> ambient]
       ELSE LET light_intensity == IF light_source.radius = None
                                   THEN light_source.intensity
                                   ELSE compute_average_rays_to(light_source, blocked)
                diffuse == color * light_intensity * material.diffuse * light_dot_normal
                specular == IF reflect_dot_eye <= 0 THEN 0
                            ELSE light_intensity * material.specular
            IN [ambient |-> ambient, diffuse |-> diffuse, specular |-> specular,
                returned_early |-> FALSE, light_intensity |-> light_intensity,
                result |-> ambient + diffuse + specular]

\* the materials and lights of the model
LightMaterials == [color : 1..2, ambient : {1}, diffuse : {1}, specular : {1}]
Lights ==
    UNION {[intensity : 0..n, radius : {None, Some(1)}, ray_count : {n}] : n \in 1..MaxRays}
DotProducts == {0 - 1, 0, 1}

\* Light::lighting(material, .., light_source, .., in_shadow, ..)
Lighting ==
    /\ ~light.called
    /\ LET r == Light_lighting(light.material, light.light_source, light.light_dot_normal,
                               light.reflect_dot_eye, light.in_shadow, light.blocked)
       IN light' = [light EXCEPT !.called = TRUE, !.out = r]
    /\ UNCHANGED <<shapes, locals, minted, calls, last, panicked, csg, hitv, world,
                   trace, comps, render, camera, parser>>

InitLight ==
    /\ \E material \in LightMaterials, light_source \in Lights,
          light_dot_normal \in DotProducts, reflect_dot_eye \in DotProducts,
          in_shadow \in BOOLEAN :
          \E blocked \in [1..light_source.ray_count -> BOOLEAN] :
             light = [called |-> FALSE, material |-> material, light_source |-> light_source,
                      light_dot_normal |-> light_dot_normal,
                      reflect_dot_eye |-> reflect_dot_eye, in_shadow |-> in_shadow,
                      blocked |-> blocked,
                      out |-> [ambient |-> 0, diffuse |-> 0, specular |-> 0,
                               returned_early |-> FALSE, light_intensity |-> 0, result |-> 0]]
    /\ trace = IdleTrace
    /\ comps = IdleComps
    /\ render = IdleRender
    /\ camera = IdleCamera
    /\ ParserIdle
    /\ shapes = << >>
    /\ locals = << >>
    /\ minted = << >>
    /\ calls = 0
    /\ last = Idle
    /\ panicked = FALSE
    /\ csg = IdleCsg
    /\ hitv = IdleHit
    /\ world = IdleWorld

NextLight == Lighting

SpecLight == InitLight /\ [][NextLight]_vars

----------------------------------------------------------------------------
(* Claims about lighting, checked under SpecLight *)

Max0(x) == IF x < 0 THEN 0 ELSE x

\* C16: the diffuse term is surface * intensity * diffuse * max(0, dot(lightv,
\* normal)) for point lights and area lights alike, so it is never negative
\* when the light lies behind the surface.
C16_DiffuseIsClamped ==
    light.called =>
        /\ light.out.diffuse >= 0
        /\ ~light.out.returned_early =>
              light.out.diffuse =
                  light.material.color * light.out.light_intensity * light.material.diffuse
                     * Max0(light.light_dot_normal)

\* the sample rays of an area light that found an occluder
Hits == Cardinality({k \in 1..Len(light.blocked) : light.blocked[k]})

\* C17: for an area light with N samples of which hits are occluded, the light
\* intensity used for the diffuse and specular terms is light.intensity *
\* (N - hits) / N: 0 for a fully occluded point and never above light.intensity.
C17_AreaLightIntensity ==
    (light.called /\ light.light_source.radius # None) =>
        LET N == light.light_source.ray_count
        IN /\ light.out.light_intensity * N = light.light_source.intensity * (N - Hits)
           /\ light.out.light_intensity <= light.light_source.intensity
           /\ Hits = N => light.out.light_intensity = 0

----------------------------------------------------------------------------
RenderPixels == 2

(* Rendering over the arena.  Every intersects takes shape_list: &mut         *)
(* ShapeList; the operators below return the arena along with their result,   *)
(* [xs |-> .., shapes |-> ..], so that what a call leaves in the arena is its  *)
(* output and not a premise.  A ray is what decides the geometry: the leaves  *)
(* it passes through (entering at t = 1, leaving at t = 2) and whether it     *)
(* meets the bounding cubes of the groups.                                    *)

Rays(leaves) == [hit : SUBSET leaves, box : BOOLEAN]

\* Sphere::intersects and the other leaves: _shape_list is not used
Leaf_intersects(self, ray, list) ==
    [xs |-> IF self.id \in ray.hit
            THEN <<[t |-> 1, object |-> self.id], [t |-> 2, object |-> self.id]>>
            ELSE << >>,
     shapes |-> list]

\* Cube::intersects of a group's bounding cube
Cube_intersects(self, ray, list) ==
    [xs |-> IF ray.box
            THEN <<[t |-> 1, object |-> self.id], [t |-> 2, object |-> self.id]>>
            ELSE << >>,
     shapes |-> list]

RECURSIVE Shape_intersects(_, _, _)
RECURSIVE Children_intersects(_, _, _, _)

\* the loop of Group::intersects over children_ids
Children_intersects(ids, ray, list, xs) ==
    IF ids = << >> THEN [xs |-> xs, shapes |-> list]
    ELSE LET r == Shape_intersects(get(list, Head(ids)), ray, list)
         IN Children_intersects(Tail(ids), ray, r.shapes, xs \o r.xs)

Group_intersects_mutant_refresh_bounds(self, ray, list) ==
    LET b == Bounds_bounds(self, list)
        xgroup == Cube_intersects(b.bounds.cube, ray, b.shapes)
    IN IF xgroup.xs # << >>
       THEN Children_intersects(self.children_ids, ray, xgroup.shapes, << >>)
       ELSE [xs |-> << >>, shapes |-> xgroup.shapes]

Group_intersects(self, ray, list) ==
    LET xgroup == Cube_intersects(self.bounding_box[1].cube, ray, list)
    IN IF xgroup.xs # << >>
       THEN Children_intersects(self.children_ids, ray, xgroup.shapes, << >>)
       ELSE [xs |-> << >>, shapes |-> xgroup.shapes]

CSG_intersects(self, ray, list) ==
    LET left_child == get(list, Unwrap(self.left_id))
        right_child == get(list, Unwrap(self.right_id))
        leftxs == Shape_intersects(left_child, ray, list)
        rightxs == Shape_intersects(right_child, ray, leftxs.shapes)
        xs == sort_by_t(leftxs.xs \o rightxs.xs)
    IN [xs |-> filter_intersects(self, xs, rightxs.shapes), shapes |-> rightxs.shapes]

\* object.intersects(&ray, shape_list), by the kind of the shape
Shape_intersects(self, ray, list) ==
    IF self.shape_type = "group" THEN Group_intersects(self, ray, list)
    ELSE IF self.shape_type = "csg" THEN CSG_intersects(self, ray, list)
    ELSE Leaf_intersects(self, ray, list)

RECURSIVE Objects_intersects(_, _, _, _)
\* the loop of World::intersects over self.objects
Objects_intersects(objects, ray, list, xs) ==
    IF objects = << >> THEN [xs |-> xs, shapes |-> list]
    ELSE LET r == Shape_intersects(Head(objects), ray, list)
         IN Objects_intersects(Tail(objects), ray, r.shapes, xs \o r.xs)

\* World::intersects(ray, shape_list)
World_intersects_arena(objects, ray, list) ==
    LET r == Objects_intersects(objects, ray, list, << >>)
    IN [xs |-> sort_by_t(r.xs), shapes |-> r.shapes]

\* World::is_shadowed(point, shape_list)
World_is_shadowed_arena(objects, ray, distance, list) ==
    LET r == World_intersects_arena(objects, ray, list)
        h == hit(r.xs)
    IN [shadowed |-> IF h # << >> THEN h[1].t < distance ELSE FALSE, shapes |-> r.shapes]

\* normal_at(shape, world_point, shape_list) in prepare_computations:
\* world_to_object and normal_to_world walk up shape.parent(shape_list), which
\* reads shape_list[parent_id] and writes nothing
Shape_normal_at(shape, list) == list

\* the calls color_at_impl makes once its ray has a hit, in order:
\* prepare_computations (normal_at), then shade_hit_impl's is_shadowed,
\* reflected_color_impl, refracted_color_impl and lighting with its sample
\* rays for an area light
AfterHit(remaining, area_light) ==
    <<[call |-> "normal_at", remaining |-> remaining],
      [call |-> "is_shadowed", remaining |-> remaining],
      [call |-> "reflected_color", remaining |-> remaining],
      [call |-> "refracted_color", remaining |-> remaining]>>
    \o (IF area_light THEN [k \in 1..MaxRays |-> [call |-> "sample", remaining |-> remaining]]
        ELSE << >>)

\* a rendering call returned: the arena is what the call left
Rendered(op, list) ==
    /\ shapes' = list
    /\ render' = [render EXCEPT !.called = TRUE, !.op = op]
    /\ UNCHANGED <<locals, minted, calls, last, panicked, csg, hitv, world,
                   trace, comps, light, camera, parser>>

RenderIntersects ==
    /\ ~render.called
    /\ render.op = "none"
    /\ Rendered("intersects", World_intersects_arena(render.objects, render.ray, shapes).shapes)

RenderIsShadowed ==
    /\ ~render.called
    /\ render.op = "none"
    /\ Rendered("is_shadowed",
                World_is_shadowed_arena(render.objects, render.ray, MaxT, shapes).shapes)

\* World::color_at is entered: color_at_impl(ray, DEFAULT_RAY_BOUNCES) is pending
RenderColorAt ==
    /\ ~render.called
    /\ render.op = "none"
    /\ \E area_light \in BOOLEAN, material \in Materials :
          render' = [render EXCEPT !.op = "color_at", !.area_light = area_light,
                                   !.material = material,
                                   !.todo = <<[call |-> "color_at", remaining |-> MaxRecursion]>>]
    /\ UNCHANGED <<shapes, locals, minted, calls, last, panicked, csg, hitv, world,
                   trace, comps, light, camera, parser>>

\* Camera::render is entered: one world.color_at per pixel is pending
RenderCamera ==
    /\ ~render.called
    /\ render.op = "none"
    /\ \E area_light \in BOOLEAN, material \in Materials :
          render' = [render EXCEPT !.op = "render", !.area_light = area_light,
                                   !.material = material,
                                   !.todo = [k \in 1..RenderPixels |->
                                               [call |-> "color_at", remaining |-> MaxRecursion]]]
    /\ UNCHANGED <<shapes, locals, minted, calls, last, panicked, csg, hitv, world,
                   trace, comps, light, camera, parser>>

\* the next pending call of color_at or render runs against the arena
RenderStep ==
    /\ ~render.called
    /\ render.todo # << >>
    /\ LET c == Head(render.todo)
           rest == Tail(render.todo)
           r == World_intersects_arena(render.objects, render.ray, shapes)
           list == IF c.call = "color_at" \/ c.call = "sample" THEN r.shapes
                   ELSE IF c.call = "is_shadowed"
                   THEN World_is_shadowed_arena(render.objects, render.ray, MaxT, shapes).shapes
                   ELSE IF c.call = "normal_at"
                   THEN Shape_normal_at(render.objects[1], shapes)
                   ELSE shapes
           more == IF c.call = "color_at" /\ hit(r.xs) # << >>
                   THEN AfterHit(c.remaining, render.area_light)
                   ELSE IF \/ /\ c.call = "reflected_color"
                              /\ reflected_color_impl(render.material, c.remaining).cast
                           \/ /\ c.call = "refracted_color"
                              /\ refracted_color_impl(render.material, 0, c.remaining).cast
                   THEN <<[call |-> "color_at", remaining |-> c.remaining - 1]>>
                   ELSE << >>
           todo == more \o rest
       IN /\ shapes' = list
          /\ render' = [render EXCEPT !.todo = todo, !.called = (todo = << >>)]
    /\ UNCHANGED <<locals, minted, calls, last, panicked, csg, hitv, world,
                   trace, comps, light, camera, parser>>

\* a world whose one object is the CSG of a scene, and a ray
InitRender ==
    /\ \E scene \in Scenes :
          /\ shapes = scene.shapes
          /\ \E ray \in Rays(LeavesBeneath(scene.shapes, get(scene.shapes, scene.node))) :
                render = [called |-> FALSE, op |-> "none", before |-> scene.shapes,
                          objects |-> <<get(scene.shapes, scene.node)>>, ray |-> ray,
                          area_light |-> FALSE,
                          material |-> [reflective |-> 0, transparency |-> 0],
                          todo |-> << >>]
    /\ trace = IdleTrace
    /\ comps = IdleComps
    /\ light = IdleLight
    /\ camera = IdleCamera
    /\ ParserIdle
    /\ locals = << >>
    /\ minted = << >>
    /\ calls = 0
    /\ last = Idle
    /\ panicked = FALSE
    /\ csg = IdleCsg
    /\ hitv = IdleHit
    /\ world = IdleWorld

NextRender ==
    \/ RenderIntersects
    \/ RenderColorAt
    \/ RenderIsShadowed
    \/ RenderCamera
    \/ RenderStep

SpecRender == InitRender /\ [][NextRender]_vars

----------------------------------------------------------------------------
(* Claims about rendering and the arena, checked under SpecRender *)

\* C18: after World.intersects, World.color_at, World.is_shadowed or
\* Camera.render returns, the arena has the same size and every slot holds the
\* same record as before the call.
C18_RenderingLeavesArena ==
    render.called =>
        /\ Len(shapes) = Len(render.before)
        /\ \A i \in 1..Len(shapes) : shapes[i] = render.before[i]

\* color_at returned for a ray that met the bounding cube of a group beneath
\* the CSG and passed through a leaf
C18_Witness ==
    /\ render.called
    /\ render.op = "color_at"
    /\ render.ray.box
    /\ render.ray.hit # {}
    /\ \E i \in 1..Len(shapes) : shapes[i].shape_type = "group"

----------------------------------------------------------------------------
(* Camera::render and the canvas.  The colour world.color_at returns for the  *)
(* ray through pixel (x, y) stands for itself: a different number for each    *)
(* pixel, none of them the black a new canvas is filled with.                 *)

MaxSize == 4

Sizes == 0..MaxSize

\* Camera::ray_for_pixel(x, y): the ray is determined by the pixel
ray_for_pixel(x, y) == [px |-> x, py |-> y]

\* world.color_at(&ray), one colour per ray
Camera_color_at(ray) == 1 + ray.px + (MaxSize + 1) * ray.py

Canvas_new_mutant_transposed(width, height) ==
    [width |-> height, height |-> width,
     pixels |-> [row \in 0..(width - 1) |-> [col \in 0..(height - 1) |-> Black]]]

\* Canvas::new(width, height): height rows of width black pixels
Canvas_new(width, height) ==
    [width |-> width, height |-> height,
     pixels |-> [row \in 0..(height - 1) |-> [col \in 0..(width - 1) |-> Black]]]

\* the guard of Canvas::write_pixel
Canvas_in_range(canvas, row, col) ==
    row >= 0 /\ row < canvas.height /\ col >= 0 /\ col < canvas.width

\* Canvas::write_pixel(row, col, color)
Canvas_write_pixel(canvas, row, col, color) ==
    IF Canvas_in_range(canvas, row, col)
    THEN [canvas EXCEPT !.pixels[row][col] = color]
    ELSE canvas

\* Canvas::pixel_at(row, col)
Canvas_pixel_at(canvas, row, col) == canvas.pixels[row][col]

CameraFrame == UNCHANGED <<shapes, locals, minted, calls, last, panicked, csg, hitv, world,
                           trace, comps, light, render, parser>>

\* render is entered: the canvas is made and the loops start at y = 0, x = 0
CameraRenderStart ==
    /\ camera.pc = "ready"
    /\ camera' = [camera EXCEPT !.pc = "running",
                                !.image = Canvas_new(camera.h_size, camera.v_size),
                                !.x = 0, !.y = 0]
    /\ CameraFrame

\* one turn of the inner loop: ray, colour, write_pixel(y, x, colour)
CameraRenderPixel ==
    /\ camera.pc = "running"
    /\ camera.y < camera.v_size
    /\ camera.x < camera.h_size
    /\ LET ray == ray_for_pixel(camera.x, camera.y)
           color == Camera_color_at(ray)
           written == Canvas_in_range(camera.image, camera.y, camera.x)
       IN camera' = [camera EXCEPT
                        !.image = Canvas_write_pixel(camera.image, camera.y, camera.x, color),
                        !.writes = IF written
                                   THEN [@ EXCEPT ![<<camera.x, camera.y>>] = @ + 1]
                                   ELSE @,
                        !.dropped = IF written THEN @ ELSE @ + 1,
                        !.x = @ + 1]
    /\ CameraFrame

\* the inner loop is over for this row: pb.inc(1) and the next y
CameraRenderRow ==
    /\ camera.pc = "running"
    /\ camera.y < camera.v_size
    /\ camera.x >= camera.h_size
    /\ camera' = [camera EXCEPT !.x = 0, !.y = @ + 1]
    /\ CameraFrame

\* the outer loop is over: render returns the image
CameraRenderReturn ==
    /\ camera.pc = "running"
    /\ camera.y >= camera.v_size
    /\ camera' = [camera EXCEPT !.pc = "done"]
    /\ CameraFrame

\* a camera of any size up to MaxSize, square or not, before render
InitCamera ==
    /\ \E h_size \in Sizes, v_size \in Sizes :
          camera = [pc |-> "ready", h_size |-> h_size, v_size |-> v_size, x |-> 0, y |-> 0,
                    image |-> Canvas_new(0, 0),
                    writes |-> [p \in (0..(h_size - 1)) \X (0..(v_size - 1)) |-> 0],
                    dropped |-> 0]
    /\ trace = IdleTrace
    /\ comps = IdleComps
    /\ light = IdleLight
    /\ render = IdleRender
    /\ ParserIdle
    /\ shapes = << >>
    /\ locals = << >>
    /\ minted = << >>
    /\ calls = 0
    /\ last = Idle
    /\ panicked = FALSE
    /\ csg = IdleCsg
    /\ hitv = IdleHit
    /\ world = IdleWorld

NextCamera ==
    \/ CameraRenderStart
    \/ CameraRenderPixel
    \/ CameraRenderRow
    \/ CameraRenderReturn

\* render is one sequential call: while a step remains, it is taken
SpecCamera == InitCamera /\ [][NextCamera]_vars /\ WF_vars(NextCamera)

----------------------------------------------------------------------------
(* Claims about Camera::render, checked under SpecCamera *)

\* the canvas render returned: its size, every pixel written exactly once
\* with the colour of its own ray, nothing dropped
RenderedCanvas ==
    /\ camera.image.width = camera.h_size
    /\ camera.image.height = camera.v_size
    /\ camera.dropped = 0
    /\ \A x \in 0..(camera.h_size - 1), y \in 0..(camera.v_size - 1) :
          /\ camera.writes[<<x, y>>] = 1
          /\ Canvas_in_range(camera.image, y, x)
          /\ Canvas_pixel_at(camera.image, y, x) = Camera_color_at(ray_for_pixel(x, y))

\* C19: Camera.render terminates and returns a canvas of width h_size and
\* height v_size in which every pixel (x, y) has been written exactly once
\* with world.color_at(ray_for_pixel(x, y)), for square and non-square sizes,
\* and no write is dropped as out of range.
C19_RenderWritesEveryPixelOnce ==
    /\ <>(camera.pc = "done")
    /\ [](camera.pc = "done" => RenderedCanvas)

\* render returned from a non-square camera with more than one row and column
C19_Witness ==
    /\ camera.pc = "done"
    /\ camera.h_size > camera.v_size
    /\ camera.v_size > 1
    /\ camera.image.pixels[1][2] = Camera_color_at(ray_for_pixel(2, 1))

----------------------------------------------------------------------------
(* The OBJ parser.  A line is a sequence of characters; parse_face runs its   *)
(* character loop over the line one token at a time, each token preceded by   *)
(* a space.  parser.refs keeps, beside the parser's own state, the first      *)
(* integer of every token the line has had so far.                            *)

MaxVerts == 2
MaxTokens == 4

Digits == <<"0", "1", "2", "3", "4", "5", "6", "7", "8", "9">>

IsDigit(c) == \E d \in 1..Len(Digits) : Digits[d] = c

DigitOf(c) == (CHOOSE d \in 1..Len(Digits) : Digits[d] = c) - 1

RECURSIVE DecimalValue(_)
DecimalValue(str) ==
    IF str = << >> THEN 0
    ELSE 10 * DecimalValue(SubSeq(str, 1, Len(str) - 1)) + DigitOf(str[Len(str)])

\* Parser::parse_int: num_str.parse::<i32>(), None when it is not a number
parse_int(num_str) ==
    IF num_str # << >> /\ \A k \in 1..Len(num_str) : IsDigit(num_str[k])
    THEN Some(DecimalValue(num_str))
    ELSE None

\* the decimal characters of a vertex index
IndexChars(i) == <<Digits[i + 1]>>

\* the forms of a face token: i, i/j, i/j/k and i//k, here with j = k = 1
Tokens ==
    {[ref |-> i, plain |-> TRUE, chars |-> IndexChars(i)] : i \in 1..MaxVerts}
    \cup {[ref |-> i, plain |-> FALSE, chars |-> IndexChars(i) \o <<"/", "1">>] :
             i \in 1..MaxVerts}
    \cup {[ref |-> i, plain |-> FALSE, chars |-> IndexChars(i) \o <<"/", "1", "/", "1">>] :
             i \in 1..MaxVerts}
    \cup {[ref |-> i, plain |-> FALSE, chars |-> IndexChars(i) \o <<"/", "/", "1">>] :
             i \in 1..MaxVerts}

\* point(x, y, z) of the k-th vertex line
Point(k) == <<k, 0, 0>>

\* parser.vertices after MaxVerts vertex lines
VertexTable == [k \in 1..MaxVerts |-> Point(k)]

\* OneVec::len
OneVec_len(v) == Len(v)

\* Index for OneVec: &self.vector[index - 1]
OneVec_in_range(v, index) == index >= 1 /\ index - 1 < Len(v)
OneVec_index(v, index) == v[(index - 1) + 1]

\* the body of the character loop of parse_face
parse_face_char(ps, character) ==
    IF character = "f" THEN ps
    ELSE IF character = " "
    THEN IF ps.should_skip_number THEN [ps EXCEPT !.str_builder = << >>]
         ELSE LET result == parse_int(ps.str_builder)
              IN IF result = None THEN ps
                 ELSE [ps EXCEPT !.verts = Append(@, AsUsize(Unwrap(result))),
                                 !.str_builder = << >>]
    ELSE IF character = "/"
    THEN LET result == parse_int(ps.str_builder)
         IN IF result = None THEN [ps EXCEPT !.should_skip_number = TRUE]
            ELSE [ps EXCEPT !.should_skip_number = TRUE,
                            !.verts = Append(@, AsUsize(Unwrap(result))),
                            !.str_builder = << >>]
    ELSE [ps EXCEPT !.str_builder = Append(@, character)]

RECURSIVE parse_face_chars(_, _)
\* for character in line.chars()
parse_face_chars(ps, chars) ==
    IF chars = << >> THEN ps
    ELSE parse_face_chars(parse_face_char(ps, Head(chars)), Tail(chars))

\* "Try to parse on end of line"
parse_face_end(ps) ==
    LET result == parse_int(ps.str_builder)
    IN IF result # None THEN Append(ps.verts, AsUsize(Unwrap(result))) ELSE ps.verts

\* Triangle::new(p1, p2, p3, shape_list)
Triangle_new(p1, p2, p3, list) ==
    LET id == get_id(list)
        shape == Leaf(id, "triangle") @@ [p1 |-> p1, p2 |-> p2, p3 |-> p3]
    IN [shape |-> shape, shapes |-> push(list, shape)]

RECURSIVE fan_loop(_, _, _, _)
\* for i in 2..vertices.len()
fan_loop(vertices, i, triangles, list) ==
    IF i >= OneVec_len(vertices) THEN [triangles |-> triangles, shapes |-> list]
    ELSE LET t == Triangle_new(OneVec_index(vertices, 1), OneVec_index(vertices, i),
                               OneVec_index(vertices, i + 1), list)
         IN fan_loop(vertices, i + 1, Append(triangles, t.shape), t.shapes)

\* Parser::fan_triangulations(vertices, shape_list)
fan_triangulations(vertices, list) == fan_loop(vertices, 2, << >>, list)

RECURSIVE add_triangles(_, _, _)
\* for tri in triangles { self.default_group.add_child(&mut tri.clone(), shape_list) }
add_triangles(group, triangles, list) ==
    IF triangles = << >> THEN [shape |-> group, shapes |-> list]
    ELSE LET a == Group_add_child(group, Head(triangles), list)
         IN add_triangles(a.shape, Tail(triangles), a.shapes)

ParserFrame == UNCHANGED <<locals, minted, calls, last, csg, hitv, world,
                           trace, comps, light, render, camera>>

\* parse_obj_file dispatches a line whose first character is 'f' to parse_face,
\* whose loop skips that character
ParseFaceBegin ==
    /\ parser.pc = "ready"
    /\ LET ps == parse_face_char([verts |-> << >>, str_builder |-> << >>,
                                  should_skip_number |-> FALSE], "f")
       IN parser' = [parser EXCEPT !.pc = "face", !.verts = ps.verts,
                                   !.str_builder = ps.str_builder,
                                   !.should_skip_number = ps.should_skip_number]
    /\ UNCHANGED <<shapes, panicked>>
    /\ ParserFrame

\* the loop runs over a space and the characters of the next token of the line
ParseFaceToken ==
    /\ parser.pc = "face"
    /\ Len(parser.refs) < MaxTokens
    /\ \E token \in Tokens :
          LET ps == parse_face_chars([verts |-> parser.verts,
                                      str_builder |-> parser.str_builder,
                                      should_skip_number |-> parser.should_skip_number],
                                     <<" ">> \o token.chars)
          IN parser' = [parser EXCEPT !.verts = ps.verts,
                                      !.str_builder = ps.str_builder,
                                      !.should_skip_number = ps.should_skip_number,
                                      !.refs = Append(@, token.ref),
                                      !.plain = @ /\ token.plain]
    /\ UNCHANGED <<shapes, panicked>>
    /\ ParserFrame

\* the line ends: the last number is parsed, and with three references or
\* more the polygon is looked up, triangulated and added to the default group
ParseFaceEnd ==
    /\ parser.pc = "face"
    /\ LET verts == parse_face_end(parser)
       IN IF Len(verts) >= 3
          THEN IF \A i \in 1..Len(verts) : OneVec_in_range(parser.vertices, verts[i])
               THEN LET polygon == [i \in 1..Len(verts) |->
                                       OneVec_index(parser.vertices, verts[i])]
                        f == fan_triangulations(polygon, shapes)
                        a == add_triangles(parser.default_group, f.triangles, f.shapes)
                    IN /\ parser' = [parser EXCEPT !.pc = "done", !.verts = verts,
                                                   !.default_group = a.shape]
                       /\ shapes' = a.shapes
                       /\ UNCHANGED panicked
               ELSE /\ parser' = [parser EXCEPT !.pc = "panicked", !.verts = verts]
                    /\ panicked' = TRUE
                    /\ UNCHANGED shapes
          ELSE /\ parser' = [parser EXCEPT !.pc = "done", !.verts = verts]
               /\ UNCHANGED <<shapes, panicked>>
    /\ ParserFrame

\* the parser of parse_obj_file once the vertex lines are read
InitParser ==
    /\ LET g == Group_new(<< >>)
       IN /\ shapes = g.shapes
          /\ parser = [pc |-> "ready", ignored_lines |-> 0, vertices |-> VertexTable,
                       default_group |-> g.shape, verts |-> << >>, str_builder |-> << >>,
                       should_skip_number |-> FALSE, refs |-> << >>, plain |-> TRUE]
    /\ PipelineIdle
    /\ locals = << >>
    /\ minted = << >>
    /\ calls = 0
    /\ last = Idle
    /\ panicked = FALSE
    /\ csg = IdleCsg
    /\ hitv = IdleHit
    /\ world = IdleWorld

NextParser ==
    \/ ParseFaceBegin
    \/ ParseFaceToken
    \/ ParseFaceEnd

SpecParser == InitParser /\ [][NextParser]_vars

----------------------------------------------------------------------------
(* Claims about the parser, checked under SpecParser *)

\* the triangles of the default group are the fan over the references refs
FanOver(refs) ==
    LET n == Len(refs)
        children == parser.default_group.children_ids
    IN IF n >= 3
       THEN /\ Len(children) = n - 2
            /\ \A k \in 1..(n - 2) :
                  LET t == get(shapes, children[k])
                  IN /\ t.shape_type = "triangle"
                     /\ t.p1 = Point(refs[1])
                     /\ t.p2 = Point(refs[k + 1])
                     /\ t.p3 = Point(refs[k + 2])
       ELSE children = << >>

\* C20: a face line with n >= 3 vertex references v1..vn adds exactly n - 2
\* triangles to the default group, the k-th being (v1, v(k+1), v(k+2)); a face
\* line with fewer than 3 references adds none.
C20_FaceLineIsFanTriangulated ==
    parser.pc = "done" => FanOver(parser.refs)

\* C22: each whitespace-separated token of a face line, whatever its form and
\* whatever precedes it, contributes exactly one vertex reference, its first
\* integer; the integers j and k never become vertex references.
C22_TokenGivesFirstInteger ==
    parser.pc = "done" => parser.verts = parser.refs

----------------------------------------------------------------------------
(* parse_obj_file over the lines of a file.  Beside the parser's fields,      *)
(* parser.others counts the lines read that are neither vertex nor face       *)
(* lines and parser.written lists the points the vertex lines spell.          *)

MaxLines == 3
MaxCoord == 1

\* Parser::parse_float: num_str.parse::<f64>() for an optional sign and digits
parse_float(num_str) ==
    LET digits == IF num_str # << >> /\ num_str[1] = "-" THEN Tail(num_str) ELSE num_str
    IN IF digits # << >> /\ \A k \in 1..Len(digits) : IsDigit(digits[k])
       THEN Some(IF digits = num_str THEN DecimalValue(digits) ELSE 0 - DecimalValue(digits))
       ELSE None

\* the characters of a coordinate
CoordChars(c) == IF c < 0 THEN <<"-">> \o IndexChars(0 - c) ELSE IndexChars(c)

\* the body of the character loop of parse_vertex; vertex[num_counter] with
\* num_counter = 3 is out of the bounds of [f64; 3]
parse_vertex_char(ps, character) ==
    IF ps.stopped \/ ps.panicked THEN ps
    ELSE IF ps.num_counter > 3 THEN [ps EXCEPT !.stopped = TRUE]
    ELSE IF character = "v" THEN ps
    ELSE IF character = " "
    THEN LET result == parse_float(ps.str_builder)
         IN IF result = None THEN ps
            ELSE IF ps.num_counter >= 3 THEN [ps EXCEPT !.panicked = TRUE]
            ELSE [ps EXCEPT !.vertex[ps.num_counter + 1] = Unwrap(result),
                            !.str_builder = << >>,
                            !.num_counter = @ + 1]
    ELSE [ps EXCEPT !.str_builder = Append(@, character)]

RECURSIVE parse_vertex_chars(_, _)
parse_vertex_chars(ps, chars) ==
    IF chars = << >> THEN ps
    ELSE parse_vertex_chars(parse_vertex_char(ps, Head(chars)), Tail(chars))

\* Parser::parse_vertex(line): the point is pushed once the loop is over
parse_vertex(vertices, line) ==
    LET ps == parse_vertex_chars([vertex |-> <<0, 0, 0>>, num_counter |-> 0,
                                  str_builder |-> << >>, stopped |-> FALSE,
                                  panicked |-> FALSE], line)
    IN [panicked |-> ps.panicked, vertices |-> Append(vertices, ps.vertex)]

\* Parser::parse_face(line, shape_list), the whole call
parse_face(vertices, group, line, list) ==
    LET ps == parse_face_chars([verts |-> << >>, str_builder |-> << >>,
                                should_skip_number |-> FALSE], line)
        verts == parse_face_end(ps)
    IN IF Len(verts) < 3 THEN [panicked |-> FALSE, shape |-> group, shapes |-> list]
       ELSE IF \E i \in 1..Len(verts) : ~OneVec_in_range(vertices, verts[i])
       THEN [panicked |-> TRUE, shape |-> group, shapes |-> list]
       ELSE LET polygon == [i \in 1..Len(verts) |-> OneVec_index(vertices, verts[i])]
                f == fan_triangulations(polygon, list)
                a == add_triangles(group, f.triangles, f.shapes)
            IN [panicked |-> FALSE, shape |-> a.shape, shapes |-> a.shapes]

\* vertex lines `v x y z`, with and without whitespace after z
VertexLines ==
    {[kind |-> "vertex", point |-> <<c, 0 - (c + 1), c + 2>>,
      chars |-> <<"v", " ">> \o CoordChars(c) \o <<" ">> \o CoordChars(0 - (c + 1))
                \o <<" ">> \o CoordChars(c + 2) \o tail] :
        c \in 0..MaxCoord, tail \in {<< >>, <<" ">>}}

\* face lines of three plain tokens
FaceLines ==
    {[kind |-> "face", point |-> << >>,
      chars |-> <<"f", " ">> \o IndexChars(i) \o <<" ">> \o IndexChars(j) \o <<" ">> \o IndexChars(i)] :
        i \in 1..MaxVerts, j \in 1..MaxVerts}

\* a blank line, a comment, a group directive, a line of one space
OtherLines ==
    {[kind |-> "other", point |-> << >>, chars |-> chars] :
        chars \in {<< >>, <<"#">>, <<"g", " ", "1">>, <<" ">>}}

ObjLines == VertexLines \cup FaceLines \cup OtherLines

\* one turn of `for line in lines`: the match on the first character
ParseObjLine ==
    /\ parser.pc = "file"
    /\ parser.nlines < MaxLines
    /\ \E line \in ObjLines :
          LET seen == [parser EXCEPT !.nlines = @ + 1,
                                     !.others = IF line.kind = "other" THEN @ + 1 ELSE @,
                                     !.written = IF line.kind = "vertex"
                                                 THEN Append(@, line.point) ELSE @]
          IN IF line.chars = << >>
             THEN /\ parser' = seen
                  /\ UNCHANGED <<shapes, panicked>>
             ELSE IF Head(line.chars) = "v"
             THEN LET v == parse_vertex(parser.vertices, line.chars)
                  IN /\ parser' = [seen EXCEPT !.vertices = v.vertices,
                                               !.pc = IF v.panicked THEN "panicked" ELSE @]
                     /\ panicked' = v.panicked
                     /\ UNCHANGED shapes
             ELSE IF Head(line.chars) = "f"
             THEN LET f == parse_face(parser.vertices, parser.default_group, line.chars, shapes)
                  IN /\ parser' = [seen EXCEPT !.default_group = f.shape,
                                               !.pc = IF f.panicked THEN "panicked" ELSE @]
                     /\ panicked' = f.panicked
                     /\ shapes' = f.shapes
             ELSE /\ parser' = [seen EXCEPT !.ignored_lines = @ + 1]
                  /\ UNCHANGED <<shapes, panicked>>
    /\ ParserFrame

\* the lines are over: Ok(parser)
ParseObjReturn ==
    /\ parser.pc = "file"
    /\ parser' = [parser EXCEPT !.pc = "returned"]
    /\ UNCHANGED <<shapes, panicked>>
    /\ ParserFrame

\* the parser parse_obj_file builds before the first line
InitObj ==
    /\ LET g == Group_new(<< >>)
       IN /\ shapes = g.shapes
          /\ parser = [pc |-> "file", ignored_lines |-> 0, vertices |-> << >>,
                       default_group |-> g.shape, nlines |-> 0, others |-> 0,
                       written |-> << >>]
    /\ PipelineIdle
    /\ locals = << >>
    /\ minted = << >>
    /\ calls = 0
    /\ last = Idle
    /\ panicked = FALSE
    /\ csg = IdleCsg
    /\ hitv = IdleHit
    /\ world = IdleWorld

NextObj ==
    \/ ParseObjLine
    \/ ParseObjReturn

SpecObj == InitObj /\ [][NextObj]_vars

----------------------------------------------------------------------------
(* Claims about parse_obj_file, checked under SpecObj *)

\* C21: every input line that is neither a vertex line nor a face line,
\* blank lines and unknown directives included, increments ignored_lines by
\* exactly one; vertex and face lines never increment it.
C21_IgnoredLinesCountsOthers ==
    parser.pc = "returned" => parser.ignored_lines = parser.others

\* C23: a line `v x y z` appends the point (x, y, z), all three coordinates
\* as written, as the next entry of the 1-based vertex table, so the k-th
\* vertex line is retrievable at index k.
C23_VertexLineAppendsPoint ==
    parser.pc = "returned" =>
        /\ OneVec_len(parser.vertices) = Len(parser.written)
        /\ \A k \in 1..Len(parser.written) :
              OneVec_index(parser.vertices, k) = parser.written[k]

----------------------------------------------------------------------------
(* Canvas::to_ppm.  A channel value after the clamp to [0, 255] is counted in *)
(* tenths; the strings are character sequences, and of the output only what   *)
(* the line lengths depend on is kept: the length of the line being built,    *)
(* the longest line pushed so far and the last character pushed.              *)

LineLimit == 70

RECURSIVE DecimalChars(_)
\* the decimal digits of a natural number
DecimalChars(n) ==
    IF n < 10 THEN <<Digits[n + 1]>>
    ELSE DecimalChars(n \div 10) \o <<Digits[(n % 10) + 1]>>

\* (&color.red * max_color_val).clamp(0.0, max_color_val), in tenths
ChannelValues == {0, 95, 995, 1275, 2550}

\* f64::to_string: the shortest decimal that reads back as the value
f64_to_string(value) ==
    DecimalChars(value \div 10)
    \o (IF value % 10 = 0 THEN << >> ELSE <<".">> \o DecimalChars(value % 10))

\* the rounding of {:.0}: to the nearest integer, ties to the even one
round_ties_even(value) ==
    LET whole == value \div 10
        rest == value % 10
    IN IF rest > 5 \/ (rest = 5 /\ whole % 2 = 1) THEN whole + 1 ELSE whole

\* format!("{:.0} ", value)
format_channel(value) == DecimalChars(round_ties_even(value)) \o <<" ">>

needs_newline_mutant_never(line_len, value) == FALSE

\* line.len() + red.to_string().len() + 1 > 70
needs_newline(line_len, value) == line_len + Len(f64_to_string(value)) + 1 > LineLimit

\* one of the Red, Green, Blue blocks of to_ppm, on [line_len, longest, last]
push_channel(out, value) ==
    LET flushed == IF needs_newline(out.line_len, value)
                   THEN [line_len |-> 0,
                         longest |-> IF out.line_len > out.longest
                                     THEN out.line_len ELSE out.longest,
                         last |-> "newline", breaks |-> out.breaks + 1]
                   ELSE out
    IN [flushed EXCEPT !.line_len = @ + Len(format_channel(value))]

\* the header: "P3\n", "{width} {height}\n", "255\n"
ppm_header(width, height) ==
    LET size == DecimalChars(width) \o <<" ">> \o DecimalChars(height)
    IN [line_len |-> 0, longest |-> IF Len(size) > 3 THEN Len(size) ELSE 3,
        last |-> "newline", breaks |-> 0]

PpmFrame == UNCHANGED <<shapes, locals, minted, calls, last, panicked, csg, hitv, world,
                        trace, comps, light, render, parser>>

\* to_ppm is entered: the header is pushed and the loops start
PpmStart ==
    /\ camera.pc = "ppm_ready"
    /\ camera' = [camera EXCEPT !.pc = "ppm_running",
                                !.out = ppm_header(camera.width, camera.height)]
    /\ PpmFrame

\* one turn of the inner loop: the three channels of pixel (i, j), whatever
\* colour the canvas holds there
PpmPixel ==
    /\ camera.pc = "ppm_running"
    /\ camera.i < camera.height
    /\ camera.j < camera.width
    /\ \E red \in ChannelValues, green \in ChannelValues, blue \in ChannelValues :
          camera' = [camera EXCEPT
                        !.out = push_channel(push_channel(push_channel(@, red), green), blue),
                        !.j = @ + 1]
    /\ PpmFrame

\* the inner loop is over for row i
PpmRow ==
    /\ camera.pc = "ppm_running"
    /\ camera.i < camera.height
    /\ camera.j >= camera.width
    /\ camera' = [camera EXCEPT !.i = @ + 1, !.j = 0]
    /\ PpmFrame

\* the loops are over: line.push('\n'), str.push_str(&line), and str is returned
PpmReturn ==
    /\ camera.pc = "ppm_running"
    /\ camera.i >= camera.height
    /\ camera' = [camera EXCEPT
                     !.pc = "ppm_done",
                     !.out = [line_len |-> 0,
                              longest |-> IF camera.out.line_len > camera.out.longest
                                          THEN camera.out.line_len ELSE camera.out.longest,
                              last |-> "newline", breaks |-> camera.out.breaks]]
    /\ PpmFrame

\* a canvas of any size up to MaxSize
InitPpm ==
    /\ \E width \in Sizes, height \in Sizes :
          camera = [pc |-> "ppm_ready", width |-> width, height |-> height, i |-> 0, j |-> 0,
                    out |-> [line_len |-> 0, longest |-> 0, last |-> "none", breaks |-> 0]]
    /\ trace = IdleTrace
    /\ comps = IdleComps
    /\ light = IdleLight
    /\ render = IdleRender
    /\ ParserIdle
    /\ shapes = << >>
    /\ locals = << >>
    /\ minted = << >>
    /\ calls = 0
    /\ last = Idle
    /\ panicked = FALSE
    /\ csg = IdleCsg
    /\ hitv = IdleHit
    /\ world = IdleWorld

NextPpm ==
    \/ PpmStart
    \/ PpmPixel
    \/ PpmRow
    \/ PpmReturn

SpecPpm == InitPpm /\ [][NextPpm]_vars

----------------------------------------------------------------------------
(* Claims about to_ppm, checked under SpecPpm *)

\* C24: in the output of to_ppm no line is longer than 70 characters for any
\* canvas contents (a newline comes before any channel value that would take
\* the line past 70), and the output ends with a newline.
C24_PpmLinesWithinLimit ==
    /\ camera.out.longest <= LineLimit
    /\ camera.out.line_len <= LineLimit
    /\ camera.pc = "ppm_done" => camera.out.last = "newline" /\ camera.out.line_len = 0

\* to_ppm returned after breaking the body into several lines, one of them
\* within two characters of the limit
C24_Witness ==
    /\ camera.pc = "ppm_done"
    /\ camera.out.breaks >= 1
    /\ camera.out.longest >= LineLimit - 2

----------------------------------------------------------------------------
(* Groups and their bounding boxes, with geometry.  Space is one axis: a      *)
(* transform is the map x |-> (a * x + b) / d, a ray is the position n / d    *)
(* at which it crosses the axis, and a sphere or cube is met by the rays that *)
(* cross it within [-1, 1] of its own space.  render.g is the caller's Group, *)
(* render.stored the record the arena holds at g.id, render.children the      *)
(* transforms of the spheres the arena holds.                                 *)

MaxGroupOps == 3

Abs(x) == IF x < 0 THEN 0 - x ELSE x

Range(seq) == {seq[k] : k \in 1..Len(seq)}

\* Matrix4::identity, translation and scaling
identity == [a |-> 1, b |-> 0, d |-> 1]
translation(x) == [a |-> 1, b |-> x, d |-> 1]
scaling(x) == [a |-> x, b |-> 0, d |-> 1]

\* transform * point, for a transform with whole coefficients
TransformPoint(transform, x) == transform.a * x + transform.b

\* Matrix4::is_invertible
is_invertible(transform) == transform.a # 0

\* ray.transform(&transform.inverse())
Ray_transform_inverse(ray, transform) ==
    [n |-> transform.d * ray.n - transform.b * ray.d, d |-> transform.a * ray.d]

\* the local test of Sphere::intersects and Cube::intersects on the axis
LocalHit(ray) == Abs(ray.n) <= Abs(ray.d)

\* the two records of a shape the ray meets
TwoRecords(object) == <<[t |-> 1, object |-> object], [t |-> 2, object |-> object]>>

\* Sphere::intersects, by the sphere's own transform
Sphere_intersects_axis(id, transform, ray) ==
    IF LocalHit(Ray_transform_inverse(ray, transform)) THEN TwoRecords(id) ELSE << >>

\* Cube::transform_to_fit_points(min, max): translation(center) * scaling(|center - max|)
\* kept in lowest terms, so that equal maps are equal records
transform_to_fit_points(min, max) ==
    LET twice_scale == Abs((max + min) - 2 * max)
        twice_center == max + min
    IN IF twice_scale % 2 = 0 /\ twice_center % 2 = 0
       THEN [a |-> twice_scale \div 2, b |-> twice_center \div 2, d |-> 1]
       ELSE [a |-> twice_scale, b |-> twice_center, d |-> 2]

\* Bounds::new
Bounds_new_axis == [min_point |-> 0 - 1, max_point |-> 1, cube |-> identity]

SetMin(S) == CHOOSE x \in S : \A y \in S : x <= y
SetMax(S) == CHOOSE x \in S : \A y \in S : x >= y

\* Bounds::bounds of a group: the least of the children's transformed
\* min_point and the greatest of their transformed max_point
Bounds_bounds_axis(group, children) ==
    LET mins == {TransformPoint(children[id], 0 - 1) : id \in Range(group.children_ids)}
        maxs == {TransformPoint(children[id], 1) : id \in Range(group.children_ids)}
        l == SetMin(mins)
        h == SetMax(maxs)
    IN [min_point |-> l, max_point |-> h, cube |-> transform_to_fit_points(l, h)]

RECURSIVE Children_intersects_axis(_, _, _)
\* the loop over children_ids, each child fetched from the arena
Children_intersects_axis(ids, ray, children) ==
    IF ids = << >> THEN << >>
    ELSE Sphere_intersects_axis(Head(ids), children[Head(ids)], ray)
         \o Children_intersects_axis(Tail(ids), ray, children)

Group_intersects_axis_mutant_untransformed_ray(group, ray, children) ==
    IF LocalHit(Ray_transform_inverse(ray, group.bounding_box.cube))
    THEN Children_intersects_axis(group.children_ids, ray, children)
    ELSE << >>

\* Group::intersects: the bounding cube is tested with ray, the children with t_ray
Group_intersects_axis(group, ray, children) ==
    LET t_ray == Ray_transform_inverse(ray, group.transform)
    IN IF LocalHit(Ray_transform_inverse(ray, group.bounding_box.cube))
       THEN Children_intersects_axis(group.children_ids, t_ray, children)
       ELSE << >>

\* the transforms given to a sphere before it is added, and to the group
ChildTransforms == {[a |-> a, b |-> b, d |-> 1] : a \in {1, 0 - 1, 2}, b \in {0, 3}}
GroupTransforms == {translation(3), scaling(2)}
AxisRays == {[n |-> n, d |-> 1] : n \in (0 - 8)..8}

GroupFrame == UNCHANGED <<shapes, locals, minted, calls, last, panicked, csg, hitv, world,
                          trace, comps, light, camera, parser>>

\* s.set_transform(T); g.add_child(s): set_parent, push the id, update the
\* arena with the group as it is, then recompute the caller's bounding box
GroupAddChild ==
    /\ render.pc = "group"
    /\ render.ops < MaxGroupOps
    /\ \E transform \in ChildTransforms :
          LET children == Append(render.children, transform)
              g1 == [render.g EXCEPT !.children_ids = Append(@, Len(children))]
          IN render' = [render EXCEPT
                           !.children = children,
                           !.stored = g1,
                           !.g = [g1 EXCEPT !.bounding_box = Bounds_bounds_axis(g1, children)],
                           !.ops = @ + 1, !.op = "add_child"]
    /\ GroupFrame

\* g.set_transform(T): assign, update the arena, then set the transform of
\* the caller's bounding cube
GroupSetTransform ==
    /\ render.pc = "group"
    /\ render.ops < MaxGroupOps
    /\ \E transform \in GroupTransforms :
          LET g1 == [render.g EXCEPT !.transform = transform]
          IN render' = [render EXCEPT
                           !.stored = g1,
                           !.g = [g1 EXCEPT !.bounding_box.cube = transform],
                           !.ops = @ + 1, !.op = "set_transform"]
    /\ GroupFrame

\* g.intersects(ray); the inverse of a singular cube transform panics
GroupIntersects ==
    /\ render.pc = "group"
    /\ \E ray \in AxisRays :
          IF is_invertible(render.g.bounding_box.cube)
          THEN render' = [render EXCEPT !.pc = "intersected", !.ray = ray,
                                        !.xs = Group_intersects_axis(render.g, ray,
                                                                     render.children)]
          ELSE render' = [render EXCEPT !.pc = "panicked", !.ray = ray]
    /\ GroupFrame

\* Group::new
InitGroup ==
    /\ LET g == [transform |-> identity, children_ids |-> << >>,
                 bounding_box |-> Bounds_new_axis]
       IN render = [pc |-> "group", called |-> FALSE, g |-> g, stored |-> g,
                    children |-> << >>, ops |-> 0, op |-> "new",
                    ray |-> [n |-> 0, d |-> 1], xs |-> << >>]
    /\ trace = IdleTrace
    /\ comps = IdleComps
    /\ light = IdleLight
    /\ camera = IdleCamera
    /\ ParserIdle
    /\ shapes = << >>
    /\ locals = << >>
    /\ minted = << >>
    /\ calls = 0
    /\ last = Idle
    /\ panicked = FALSE
    /\ csg = IdleCsg
    /\ hitv = IdleHit
    /\ world = IdleWorld

NextGroup ==
    \/ GroupAddChild
    \/ GroupSetTransform
    \/ GroupIntersects

SpecGroup == InitGroup /\ [][NextGroup]_vars

----------------------------------------------------------------------------
(* Claims about groups, checked under SpecGroup *)

\* the part of the axis child id occupies in the space `outer` maps from
Extent(outer, id) ==
    LET ends == {TransformPoint(outer, TransformPoint(render.children[id], x)) :
                    x \in {0 - 1, 1}}
    IN [lo |-> SetMin(ends), hi |-> SetMax(ends)]

\* the records of the children the ray crosses, in child order
RECURSIVE CrossedChildren(_)
CrossedChildren(ids) ==
    IF ids = << >> THEN << >>
    ELSE LET e == Extent(render.g.transform, Head(ids))
         IN (IF e.lo <= render.ray.n /\ render.ray.n <= e.hi
             THEN TwoRecords(Head(ids)) ELSE << >>)
            \o CrossedChildren(Tail(ids))

\* the ray crosses the bounding cube as the cube's transform places it
CrossesBox ==
    LET cube == render.g.bounding_box.cube
    IN /\ cube.b - Abs(cube.a) <= cube.d * render.ray.n
       /\ cube.d * render.ray.n <= cube.b + Abs(cube.a)

\* C25: Group.intersects returns the empty list when the bounding ray-cube
\* test yields no hit, and otherwise the concatenation, in child order, of
\* every child's intersections with the ray transformed by the group's
\* inverse transform; an empty group returns the empty list for every ray.
C25_GroupIntersectsGatedChildren ==
    render.pc = "intersected" =>
        /\ render.xs = IF CrossesBox THEN CrossedChildren(render.g.children_ids) ELSE << >>
        /\ render.g.children_ids = << >> => render.xs = << >>

\* a transformed group of two children, one crossed by the ray and one not
C25_Witness ==
    /\ render.pc = "intersected"
    /\ render.g.transform # identity
    /\ Len(render.g.children_ids) = 2
    /\ Len(render.xs) = 2

\* C26: after add_child, for every child the image of the child's AABB under
\* the child's transform lies inside the group's (min_point, max_point), and
\* min_point <= max_point.
C26_BoundsContainChildren ==
    (render.pc = "group" /\ render.op = "add_child") =>
        LET box == render.g.bounding_box
        IN /\ box.min_point <= box.max_point
           /\ \A id \in Range(render.g.children_ids) :
                 /\ box.min_point <= Extent(identity, id).lo
                 /\ Extent(identity, id).hi <= box.max_point

\* C28: for every group, whatever the order of set_transform and add_child,
\* and for every ray, Group.intersects returns the same intersections as
\* intersecting all of its children without the bounding-box test.
C28_GatingChangesNothing ==
    render.pc = "intersected" => render.xs = CrossedChildren(render.g.children_ids)

\* C29: after g.add_child(c) returns, the group record stored in the arena at
\* g.id carries the same bounding box as the caller's g.
C29_StoredBoxIsCurrent ==
    (render.pc = "group" /\ render.op = "add_child") =>
        render.stored.bounding_box = render.g.bounding_box

----------------------------------------------------------------------------
(* Normal perturbation.  What sin and the noise field evaluate to at the      *)
(* point is an input, drawn with the point; comps holds the call of           *)
(* Cylinder::normal_at on the top cap, where the plain normal is (0, 1, 0).   *)

MaxPoint == 1

\* tuple::point, tuple::vector and Tuple + Tuple
point(x, y, z) == [x |-> x, y |-> y, z |-> z, w |-> 1]
vector(x, y, z) == [x |-> x, y |-> y, z |-> z, w |-> 0]
TupleAdd(p, q) == [x |-> p.x + q.x, y |-> p.y + q.y, z |-> p.z + q.z, w |-> p.w + q.w]

\* NormalPerturber::perturb_sin_y, wave being (point.y * factor).sin()
perturb_sin_y(wave) == vector(0, wave, 0)

\* NormalPerturber::perlin, noise being perlin.get(point)
perlin(noise, factor) == vector(noise * factor, noise * factor, noise * factor)

\* NormalPerturber::perturb_normal(command, point, factor, perlin)
perturb_normal(command, p, factor, wave, noise) ==
    IF command = "sin_y" THEN perturb_sin_y(wave)
    ELSE IF command = "perlin" THEN perlin(noise, factor)
    ELSE p

\* the perturbation the callers add to the normal they computed
Perturbed(normal, normal_perturb, p, factor, wave, noise) ==
    IF normal_perturb # None
    THEN TupleAdd(normal, perturb_normal(Unwrap(normal_perturb), p, factor, wave, noise))
    ELSE normal

\* Cylinder::normal_at of a cylinder with minimum -1 and maximum 1; on whole
\* coordinates FLOAT_THRESHOLD moves neither comparison
Cylinder_normal_at(normal_perturb, p, factor, wave, noise) ==
    LET distance == p.x * p.x + p.z * p.z
    IN IF distance < 1 /\ p.y >= 1
       THEN Perturbed(vector(0, 1, 0), normal_perturb, p, factor, wave, noise)
       ELSE IF distance < 1 /\ p.y <= 0 - 1
       THEN Perturbed(vector(0, 0 - 1, 0), normal_perturb, p, factor, wave, noise)
       ELSE Perturbed(vector(p.x, 0, p.z), normal_perturb, p, factor, wave, noise)

PerturbKinds == {"sin_y", "perlin", "ripple", ""}

NormalAt ==
    /\ comps.pc = "normal_ready"
    /\ comps' = [comps EXCEPT !.pc = "normal_done",
                              !.normal = Cylinder_normal_at(comps.normal_perturb, comps.p,
                                                            comps.factor, comps.wave,
                                                            comps.noise)]
    /\ UNCHANGED <<shapes, locals, minted, calls, last, panicked, csg, hitv, world,
                   trace, light, render, camera, parser>>

\* a material with or without a perturbation kind, a point of the surface
InitNormal ==
    /\ \E normal_perturb \in {None} \cup {Some(k) : k \in PerturbKinds},
          x \in (0 - MaxPoint)..MaxPoint, y \in (0 - 1)..1,
          z \in (0 - MaxPoint)..MaxPoint,
          factor \in 1..2, wave \in (0 - 1)..1, noise \in (0 - 1)..1 :
          comps = [pc |-> "normal_ready", called |-> FALSE, normal_perturb |-> normal_perturb,
                   p |-> point(x, y, z), factor |-> factor, wave |-> wave, noise |-> noise,
                   normal |-> vector(0, 0, 0)]
    /\ trace = IdleTrace
    /\ light = IdleLight
    /\ render = IdleRender
    /\ camera = IdleCamera
    /\ ParserIdle
    /\ shapes = << >>
    /\ locals = << >>
    /\ minted = << >>
    /\ calls = 0
    /\ last = Idle
    /\ panicked = FALSE
    /\ csg = IdleCsg
    /\ hitv = IdleHit
    /\ world = IdleWorld

NextNormal == NormalAt

SpecNormal == InitNormal /\ [][NextNormal]_vars

----------------------------------------------------------------------------
(* Claims about normal perturbation, checked under SpecNormal *)

\* C27: perturb_normal called with a kind other than sin_y or perlin is the
\* identity: it contributes no perturbation, so the resulting shading normal
\* equals the unperturbed normal.
C27_UnknownKindLeavesNormal ==
    (/\ comps.pc = "normal_done"
     /\ comps.normal_perturb # None
     /\ Unwrap(comps.normal_perturb) \notin {"sin_y", "perlin"})
        => comps.normal = Cylinder_normal_at(None, comps.p, comps.factor, comps.wave,
                                             comps.noise)

----------------------------------------------------------------------------
(* A world with several lights.  Planes stand across one axis at whole        *)
(* positions, rays run along the axis with direction 1 or -1, an over_point   *)
(* is the point itself, and materials are opaque.  world holds the objects,   *)
(* the lights as pushed so far, the lights the world began with and the last  *)
(* call with its argument and result.                                         *)

\* w.lights holds at most this many lights
MaxLights == 3

\* the light shade_hit_impl and is_shadowed read: self.lights[0]
first_light_mutant_last(lights) == lights[Len(lights)]

first_light(lights) == lights[1]

\* Plane::intersects of the plane standing at position c
Plane_intersects_axis(id, c, ray) ==
    <<[t |-> (c - ray.origin) * ray.direction, object |-> id]>>

\* World::intersects(ray)
World_intersects_ray(w, ray) ==
    World_intersects([k \in 1..Len(w.objects) |-> Plane_intersects_axis(k, w.objects[k], ray)])

Sign(x) == IF x < 0 THEN 0 - 1 ELSE IF x > 0 THEN 1 ELSE 0

\* World::is_shadowed(point)
World_is_shadowed_at(w, p) ==
    LET v == first_light(w.lights).position - p
        distance == Abs(v)
        direction == Sign(v)
        ray == [origin |-> p, direction |-> direction]
        intersections == World_intersects_ray(w, ray)
        h == hit(intersections)
    IN IF h # << >> THEN h[1].t < distance ELSE FALSE

RECURSIVE World_color_at_impl(_, _, _)
\* World::color_at_impl(ray, remaining), with prepare_computations and
\* shade_hit_impl; transparency is 0, so refracted_color_impl returns black
\* and the sum is surface + reflected + refracted
World_color_at_impl(w, ray, remaining) ==
    LET intersections == World_intersects_ray(w, ray)
        h == hit(intersections)
    IN IF h = << >> THEN Black
       ELSE LET p == ray.origin + h[1].t * ray.direction
                eyev == 0 - ray.direction
                inside == eyev < 0
                normalv == IF inside THEN 0 - 1 ELSE 1
                reflectv == ray.direction - 2 * normalv * (ray.direction * normalv)
                is_shadowed == World_is_shadowed_at(w, p)
                r == reflected_color_impl(w.material, remaining)
                reflected == IF r.cast
                             THEN World_color_at_impl(w, [origin |-> p, direction |-> reflectv],
                                                      r.remaining) * w.material.reflective
                             ELSE r.color
                refracted == refracted_color_impl(w.material, 0, remaining).color
                light_source == first_light(w.lights)
                light_v == Sign(light_source.position - p)
                surface == Light_lighting(w.material, light_source, light_v * normalv,
                                          light_v * eyev, is_shadowed, << >>).result
            IN surface + reflected + refracted

\* World::color_at(ray)
World_color_at(w, ray) == World_color_at_impl(w, ray, MaxRecursion)

\* the planes stand at 1 and 2, the lights at either end of the axis
PlaneScenes == {<< >>, <<1>>, <<2>>, <<1, 2>>, <<2, 1>>}
PointLights == [position : {0, 3}, intensity : 1..2, radius : {None}, ray_count : {2}]
EyeRays == [origin : 0..3, direction : {0 - 1, 1}]
SurfacePoints == 1..2
OpaqueMaterials == [color : {1}, ambient : {1}, diffuse : {1}, specular : {1},
                    reflective : {0, 1}, transparency : {0}]

LightsFrame == UNCHANGED <<pipelineVars, parseVars, shapes, locals, minted, calls, last,
                           panicked, csg, hitv>>

\* w.lights.push(light)
LightsPush ==
    /\ world.pc = "lights"
    /\ Len(world.lights) < MaxLights
    /\ \E l \in PointLights : world' = [world EXCEPT !.lights = Append(world.lights, l)]
    /\ LightsFrame

\* w.color_at(&ray, ..)
LightsColorAt ==
    /\ world.pc = "lights"
    /\ \E ray \in EyeRays :
          world' = [world EXCEPT !.op = "color_at", !.arg = ray,
                                 !.out = World_color_at(world, ray)]
    /\ LightsFrame

\* w.is_shadowed(point, ..)
LightsIsShadowed ==
    /\ world.pc = "lights"
    /\ \E p \in SurfacePoints :
          world' = [world EXCEPT !.op = "is_shadowed", !.arg = p,
                                 !.out = World_is_shadowed_at(world, p)]
    /\ LightsFrame

InitLights ==
    /\ PipelineIdle
    /\ ParserIdle
    /\ \E objects \in PlaneScenes, material \in OpaqueMaterials, l \in PointLights :
          world = [pc |-> "lights", objects |-> objects, material |-> material,
                   lights |-> <<l>>, base |-> <<l>>, op |-> "none", arg |-> 0, out |-> 0]
    /\ shapes = << >>
    /\ locals = << >>
    /\ minted = << >>
    /\ calls = 0
    /\ last = Idle
    /\ panicked = FALSE
    /\ csg = IdleCsg
    /\ hitv = IdleHit

NextLights ==
    \/ LightsPush
    \/ LightsColorAt
    \/ LightsIsShadowed

SpecLights == InitLights /\ [][NextLights]_vars

----------------------------------------------------------------------------
(* Claims about a world with several lights, checked under SpecLights *)

\* the world as it was before any light was appended
BaseWorld == [world EXCEPT !.lights = world.base]

\* C30: shading consults only the first light of the world: for a world with
\* at least one light, appending further lights changes neither the colour
\* returned by color_at for any ray nor the result of is_shadowed for any
\* point.
C30_OnlyFirstLightConsulted ==
    /\ world.op = "color_at" => world.out = World_color_at(BaseWorld, world.arg)
    /\ world.op = "is_shadowed" => world.out = World_is_shadowed_at(BaseWorld, world.arg)

\* a lit colour was returned after a light was appended that, had it been
\* the one consulted, would have given another colour
C30_Witness ==
    /\ world.op = "color_at"
    /\ Len(world.lights) > Len(world.base)
    /\ world.out # Black
    /\ World_color_at([world EXCEPT !.lights = <<world.lights[Len(world.lights)]>>],
                      world.arg) # world.out

====
